---------------------------- MODULE Spec2Model ----------------------------
(***************************************************************************)
(* State-machine model of exchange_sdk.websocket.WebSocketClient: the      *)
(* reconnecting, reference-counted subscription client.                    *)
(*                                                                         *)
(* The client runs on one asyncio event loop.  A task runs without         *)
(* interruption from one suspension point (an await that really waits:     *)
(* websockets.connect, ws.send, ws.recv, asyncio.sleep, awaiting a task)   *)
(* to the next, so every action below is one such run of one task.         *)
(* All state is kept in one record (see State); an action computes the     *)
(* set of records the run can end in and commits one of them.              *)
(***************************************************************************)
EXTENDS Integers, Sequences, FiniteSets, TLC

VARIABLES
    ws,                    \* self._ws: "none" | "open" | "closed" (its .closed)
    is_connected,          \* self._is_connected
    reconnect_attempt,     \* self._reconnect_attempt
    should_reconnect,      \* self._should_reconnect
    message_queue,         \* self._message_queue: sequence of frames
    active_subscriptions,  \* self._active_subscriptions: dict in insertion order
    handlers,              \* self._handlers: registered callbacks
    ping_task,             \* self._ping_task: 0 (None) or the number of the task in it
    receive_task,          \* self._receive_task: 0 (None) or the number of the task in it
    tasks,                 \* the event loop's tasks running client coroutines
    calls,                 \* subscribe/unsubscribe coroutines suspended in ws.send
    spawned,               \* tasks made by create_task(subscribe/unsubscribe), not yet started
    consumers,             \* facade users: "none" | "active" | "released"
    closer,                \* position of the close() coroutine
    sincePong,             \* loop time - self._last_pong_time, in seconds (saturating)
    sess,                  \* number of transport sessions opened so far
    wire,                  \* frames written to the current session, in order
    issued,                \* per key: frames handed to _send by subscribe / unsubscribe
    lastCall,              \* the subscribe/unsubscribe call that completed last
    nq,                    \* number of frames queued so far while no session was live
    opensAfterClose,       \* transport sessions opened after close() was called
    cache,                 \* CacheService: _tokens_cache, _markets_cache (their keys), _initialized
    lastDispatch,          \* what _handle_message did with the last inbound frame
    marked,                \* mark_initialized was called since the last clear
    dupes,                 \* registrations that on() was asked to add again
    dropped,               \* cache keys the last set_tokens / set_markets call removed
    conv,                  \* an amount on its way through to_atoms and to_display_value
    init,                  \* ExchangeClient: _cache_init_task, the tasks made for it, and
                           \* the initialize_cache calls that await them
    dispatching,           \* inbound frames taken so far, the handlers still to call for
                           \* the frame each receive loop holds, and the log of their calls
    budget                 \* what the environment may still do (bounds of the model)

vars == <<ws, is_connected, reconnect_attempt, should_reconnect, message_queue,
          active_subscriptions, handlers, ping_task, receive_task, tasks, calls,
          spawned, consumers, closer, sincePong, sess, wire, issued, lastCall, nq,
          opensAfterClose, cache, lastDispatch, marked, dupes, dropped,
          conv, init, dispatching, budget>>

---------------------------------------------------------------------------
(* Bounds of the model *)

\* Tasks are named after the connect that made them: at most MaxConn connects.
MaxConn == 2

\* SpecSerial: calls made, sends that fail.
SerialCalls == 3
SerialSendFail == 1

\* SpecFacade: on_trades calls made.  SpecOverlap: calls made.
FacadeCalls == 2
OverlapCalls == 3

\* SpecReplay: calls made.
ReplayCalls == 2

\* SpecStale: steps of time.
StaleTicks == 3

\* Calls and clock steps of the scenario of sends without a live session.
QueueCalls == 2

QueueTicks == 2

\* Calls and clock steps of the scenario of connects and sessions.
SessionCalls == 2

SessionTicks == 2

\* Inbound frames and clock steps of the scenario of awaited handlers.
AwaitFrames == 2

AwaitTicks == 1

\* Calls of the scenario of subscriptions without market and user.
SentinelCalls == 2

\* Calls and passages of time of the scenario of lost sessions and failed
\* connects under subscriptions and registrations.
TransparentCalls == 2
TransparentTicks == 1

\* initialize_cache calls of the scenario of cache initialisation.
InitCalls == 3

\* SpecCache: length of the lists given to set_tokens and set_markets.
MaxList == 2

\* SpecHandlers: calls of facades and of their capabilities.
HandlerCalls == 2

\* SpecDispatch: steps of time.
DispatchTicks == 1

\* SpecLive: steps of time.
LiveTicks == 8

\* SpecBackoff: failed connect attempts, and steps of time.
BackoffFails == 6
BackoffTicks == 6

\* SpecClose: failed connect attempts, and steps of time.
CloseFails == 1
CloseTicks == 2

---------------------------------------------------------------------------
(* Program constants *)

PingInterval == 30
PongTimeout == 60
reconnect_delays == <<1, 2, 4, 8, 16>>

None == "None"
\* The slot of a deleted dict entry.
Dummy == [channel |-> "<dummy>", identifier |-> "<dummy>"]

Min(a, b) == IF a < b THEN a ELSE b

\* A value above every timeout: _last_pong_time starts at 0.0, loop time does not.
SinceCap == PongTimeout + PingInterval + 1

---------------------------------------------------------------------------
(* Subscription keys and frames *)

MarketIds == {"BTC/USDC", "ETH/USDC"}

Users == {"0xA", "0xB"}

\* The arguments the facades call subscribe / unsubscribe with.
FacadeArgsSet ==
    { [channel |-> ch, market_id |-> m, user_address |-> None] :
          ch \in {"trades", "orderbook"}, m \in MarketIds }
    \cup { [channel |-> "user", market_id |-> None, user_address |-> u] : u \in Users }

\* The arguments subscribe / unsubscribe are called with.
ArgsSet ==
    { [channel |-> "trades", market_id |-> "BTC/USDC", user_address |-> None],
      [channel |-> "user", market_id |-> None, user_address |-> "0xA"] }

\* f"{channel}:{identifier}", kept as the pair key.split(":", 1) gives back.
get_subscription_key(args) ==
    [channel |-> args.channel,
     identifier |-> IF args.market_id # None THEN args.market_id
                    ELSE IF args.user_address # None THEN args.user_address
                    ELSE "global"]

\* Arguments that name neither a market nor a user, beside ones that do.
SentinelArgsSet ==
    { [channel |-> "user", market_id |-> None, user_address |-> None],
      [channel |-> "trades", market_id |-> "BTC/USDC", user_address |-> None] }

Keys == { get_subscription_key(a) : a \in ArgsSet \cup FacadeArgsSet \cup SentinelArgsSet }

\* A frame; src and qid are bookkeeping of the model, not sent: src is who built
\* the frame, qid > 0 numbers the frames queued while no session was live.
Frame(type, channel, market_id, user_address, src) ==
    [type |-> type, channel |-> channel, market_id |-> market_id,
     user_address |-> user_address, src |-> src, qid |-> 0]

CallFrame(type, args) ==
    Frame(type, args.channel, args.market_id, args.user_address, "call")

PingFrame == Frame("ping", None, None, None, "ping")

\* The frame _resubscribe_all builds from a key.
ReplayFrame(key) ==
    Frame("subscribe", key.channel,
          IF key.channel \in {"trades", "orderbook"} THEN key.identifier ELSE None,
          IF key.channel = "user" THEN key.identifier ELSE None,
          "replay")

\* The key a subscribe / unsubscribe frame is about.
FrameKey(f) ==
    get_subscription_key([channel |-> f.channel, market_id |-> f.market_id,
                          user_address |-> f.user_address])

---------------------------------------------------------------------------
(* The registry: a dict, modelled as its entries in insertion order *)

KeyIndex(subs, key) ==
    IF \E i \in 1..Len(subs) : subs[i].key = key
    THEN CHOOSE i \in 1..Len(subs) : subs[i].key = key
    ELSE 0

HasKey(subs, key) == KeyIndex(subs, key) # 0

\* self._active_subscriptions.get(key, 0)
DictGet(subs, key) ==
    IF HasKey(subs, key) THEN subs[KeyIndex(subs, key)].count ELSE 0

\* self._active_subscriptions[key] = n
DictSet(subs, key, n) ==
    IF HasKey(subs, key)
    THEN [subs EXCEPT ![KeyIndex(subs, key)].count = n]
    ELSE Append(subs, [key |-> key, count |-> n])

\* del self._active_subscriptions[key] (the key is present)
DictDel(subs, key) ==
    LET i == KeyIndex(subs, key) IN
    SubSeq(subs, 1, i - 1) \o SubSeq(subs, i + 1, Len(subs))

DictKeys(subs) == [i \in 1..Len(subs) |-> subs[i].key]

Count(key) == DictGet(active_subscriptions, key)

---------------------------------------------------------------------------
(* Tasks *)

MainTask == <<"main", 0>>
PingTask(s) == <<"ping", s>>
RecvTask(s) == <<"recv", s>>
Sessions == 1..MaxConn
TaskIds == {MainTask} \cup { PingTask(s) : s \in Sessions } \cup { RecvTask(s) : s \in Sessions }

NoFrame == Frame("none", None, None, None, "none")

\* pc: where the task is suspended.  timer: seconds left of its sleep.
\* n, arr, k: the dict iterator of _resubscribe_all (size when it started, the
\* entries it walks, the next position).  msg, ok: the frame in ws.send and
\* whether that send succeeds.  cancel: Task.cancel() was called on it.
NoTask ==
    [pc |-> "none", timer |-> 0, n |-> 0, arr |-> <<>>, k |-> 0,
     msg |-> NoFrame, ok |-> TRUE, cancel |-> FALSE]

At(pcv) == [NoTask EXCEPT !.pc = pcv]

State ==
    [ws |-> ws, is_connected |-> is_connected, reconnect_attempt |-> reconnect_attempt,
     should_reconnect |-> should_reconnect, message_queue |-> message_queue,
     active_subscriptions |-> active_subscriptions, handlers |-> handlers,
     ping_task |-> ping_task, receive_task |-> receive_task, tasks |-> tasks,
     calls |-> calls, spawned |-> spawned, consumers |-> consumers, closer |-> closer,
     sincePong |-> sincePong, sess |-> sess, wire |-> wire, issued |-> issued,
     lastCall |-> lastCall, nq |-> nq, opensAfterClose |-> opensAfterClose,
     cache |-> cache, lastDispatch |-> lastDispatch, marked |-> marked,
     dupes |-> dupes, dropped |-> dropped, conv |-> conv, init |-> init,
     dispatching |-> dispatching, budget |-> budget]

Commit(c) ==
    /\ ws' = c.ws
    /\ is_connected' = c.is_connected
    /\ reconnect_attempt' = c.reconnect_attempt
    /\ should_reconnect' = c.should_reconnect
    /\ message_queue' = c.message_queue
    /\ active_subscriptions' = c.active_subscriptions
    /\ handlers' = c.handlers
    /\ ping_task' = c.ping_task
    /\ receive_task' = c.receive_task
    /\ tasks' = c.tasks
    /\ calls' = c.calls
    /\ spawned' = c.spawned
    /\ consumers' = c.consumers
    /\ closer' = c.closer
    /\ sincePong' = c.sincePong
    /\ sess' = c.sess
    /\ wire' = c.wire
    /\ issued' = c.issued
    /\ lastCall' = c.lastCall
    /\ nq' = c.nq
    /\ opensAfterClose' = c.opensAfterClose
    /\ cache' = c.cache
    /\ lastDispatch' = c.lastDispatch
    /\ marked' = c.marked
    /\ dupes' = c.dupes
    /\ dropped' = c.dropped
    /\ conv' = c.conv
    /\ init' = c.init
    /\ dispatching' = c.dispatching
    /\ budget' = c.budget

---------------------------------------------------------------------------
(* _send *)

\* The negation of the test at the top of _send.
Live(c) == c.is_connected /\ c.ws = "open"

\* A variant that puts the frame in front of the queued frames.
EnqueueFirst(c, msg) ==
    IF msg.qid = 0
    THEN [c EXCEPT !.message_queue = <<[msg EXCEPT !.qid = c.nq + 1]>> \o @,
                   !.nq = @ + 1]
    ELSE [c EXCEPT !.message_queue = <<msg>> \o @]

\* self._message_queue.append(message), no session being live.
Enqueue(c, msg) ==
    IF msg.qid = 0
    THEN [c EXCEPT !.message_queue = Append(@, [msg EXCEPT !.qid = c.nq + 1]),
                   !.nq = @ + 1]
    ELSE [c EXCEPT !.message_queue = Append(@, msg)]

\* The call of self._ws.send: the frame is written (ok) or the send raises.
\* The caller is suspended in either case.
WsSend(c, msg) ==
    { [c |-> [c EXCEPT !.wire = Append(@, msg)], ok |-> TRUE] }
    \cup
    { [c |-> [c EXCEPT !.budget.sendfail = @ - 1], ok |-> FALSE] : x \in
          IF c.budget.sendfail > 0 THEN {1} ELSE {} }

\* The rest of _send once ws.send has returned or raised.
AfterSend(c, msg, ok) ==
    IF ok THEN c ELSE [c EXCEPT !.message_queue = Append(@, msg)]

---------------------------------------------------------------------------
(* _connect, _resubscribe_all, _schedule_reconnect *)

SetTask(c, t, rec) == [c EXCEPT !.tasks[t] = rec]

TaskDone(c, t) == SetTask(c, t, At("done"))

\* A variant that clamps one entry before the last.
delay_index_short(attempt) == Min(attempt, Len(reconnect_delays) - 2)

delay_index(attempt) == Min(attempt, Len(reconnect_delays) - 1)

Delay(attempt) == reconnect_delays[delay_index(attempt) + 1]

\* _schedule_reconnect up to its sleep.
schedule_reconnect(c, t) ==
    IF ~c.should_reconnect
    THEN TaskDone(c, t)
    ELSE SetTask(c, t, [At("sleep_reconnect") EXCEPT
                            !.timer = Delay(c.reconnect_attempt)])

\* A variant that starts over with an empty registry.
connect_error_forgets(c, t) ==
    schedule_reconnect([c EXCEPT !.is_connected = FALSE,
                                 !.active_subscriptions = <<>>], t)

\* The except branch of _connect.
ConnectError(c, t) == schedule_reconnect([c EXCEPT !.is_connected = FALSE], t)

\* The two create_task calls that end _connect; the task running it returns.
StartLoops(c, t) ==
    LET g == c.ping_task + 1 IN
    TaskDone([c EXCEPT !.tasks[PingTask(g)] = At("ready"),
                       !.tasks[RecvTask(g)] = At("ready"),
                       !.ping_task = g,
                       !.receive_task = g], t)

\* The flush loop of _connect, from its test to the first send that suspends.
\* With no live session _send puts the popped frame back and the loop goes on
\* without ever suspending: the task spins (pc "flush_spin").
FlushFrom(c, t) ==
    IF c.message_queue = <<>>
    THEN { StartLoops(c, t) }
    ELSE LET msg == Head(c.message_queue)
             c1 == [c EXCEPT !.message_queue = Tail(@)]
         IN  IF Live(c1)
             THEN { SetTask(r.c, t, [At("flush_send") EXCEPT !.msg = msg, !.ok = r.ok])
                        : r \in WsSend(c1, msg) }
             ELSE { SetTask(Enqueue(c1, msg), t, At("flush_spin")) }

\* The dict iterator's next entry at or after position k (0: exhausted).
NextEntry(arr, k) ==
    IF \E p \in k..Len(arr) : arr[p] # Dummy
    THEN CHOOSE p \in k..Len(arr) :
             arr[p] # Dummy /\ \A q \in k..(p - 1) : arr[q] = Dummy
    ELSE 0

\* A variant whose loop ends after its first turn.
replay_exhausted_after_one(arr, k) == k > 1 \/ NextEntry(arr, k) = 0

\* The for loop of _resubscribe_all has no further key to visit.
replay_exhausted(arr, k) == NextEntry(arr, k) = 0

\* The loop of _resubscribe_all, from the iterator's next() to the first send
\* that suspends.  next() raises RuntimeError when the dict changed size.
RECURSIVE ReplayFrom(_, _)
ReplayFrom(c, t) ==
    LET T == c.tasks[t]
        p == NextEntry(T.arr, T.k)
    IN  IF Len(c.active_subscriptions) # T.n
        THEN { ConnectError(c, t) }
        ELSE IF replay_exhausted(T.arr, T.k)
        THEN FlushFrom(c, t)
        ELSE LET msg == ReplayFrame(T.arr[p])
                 c1 == [c EXCEPT !.tasks[t].k = p + 1]
             IN  IF Live(c1)
                 THEN { [r.c EXCEPT !.tasks[t].pc = "replay_send",
                                    !.tasks[t].msg = msg,
                                    !.tasks[t].ok = r.ok] : r \in WsSend(c1, msg) }
                 ELSE ReplayFrom(Enqueue(c1, msg), t)

resubscribe_all(c, t) ==
    IF c.active_subscriptions = <<>>
    THEN FlushFrom(c, t)
    ELSE ReplayFrom([c EXCEPT !.tasks[t].n = Len(c.active_subscriptions),
                              !.tasks[t].arr = DictKeys(c.active_subscriptions),
                              !.tasks[t].k = 1], t)

\* A variant without the early return.
connect_begin_always(c, t) == SetTask(c, t, At("connecting"))

\* _connect from its entry to the await of websockets.connect.
connect_begin(c, t) ==
    IF c.ws = "open"
    THEN TaskDone(c, t)
    ELSE SetTask(c, t, At("connecting"))

\* A variant that keeps the count of attempts.
attempt_kept_on_connect(attempt) == attempt

\* _connect: "self._reconnect_attempt = 0"
attempt_on_connect(attempt) == 0

\* _connect after websockets.connect returned a session.
connect_established(c, t) ==
    resubscribe_all([c EXCEPT !.ws = "open",
                              !.is_connected = TRUE,
                              !.reconnect_attempt = attempt_on_connect(@),
                              !.sincePong = 0,
                              !.sess = @ + 1,
                              !.wire = <<>>,
                              !.opensAfterClose =
                                  IF c.closer # "idle" THEN @ + 1 ELSE @], t)

\* A key was inserted into / deleted from the dict: what an iterator over it sees.
TouchInsert(c, key) ==
    [c EXCEPT !.tasks = [t \in DOMAIN c.tasks |->
        IF c.tasks[t].pc = "replay_send"
        THEN [c.tasks[t] EXCEPT !.arr = Append(@, key)]
        ELSE c.tasks[t]]]

TouchDelete(c, key) ==
    [c EXCEPT !.tasks = [t \in DOMAIN c.tasks |->
        IF c.tasks[t].pc = "replay_send"
        THEN [c.tasks[t] EXCEPT !.arr =
                 [i \in 1..Len(@) |-> IF @[i] = key THEN Dummy ELSE @[i]]]
        ELSE c.tasks[t]]]

---------------------------------------------------------------------------
(* subscribe, unsubscribe *)

NoCall ==
    [op |-> "none", key |-> [channel |-> None, identifier |-> None],
     cur |-> 0, sent |-> FALSE, raised |-> FALSE]

Completed(op, key, cur, sent, raised) ==
    [op |-> op, key |-> key, cur |-> cur, sent |-> sent, raised |-> raised]

\* A variant that sends a frame for the second reference too.
subscribe_sends_below_two(current_count) == current_count <= 1

\* subscribe: "if current_count == 0"
subscribe_sends(current_count) == current_count = 0

\* subscribe, its last statement: self._active_subscriptions[key] = current_count + 1
subscribe_finish(c, args, cur, sent) ==
    LET key == get_subscription_key(args)
        c1 == IF HasKey(c.active_subscriptions, key) THEN c ELSE TouchInsert(c, key)
    IN  [c1 EXCEPT !.active_subscriptions = DictSet(@, key, cur + 1),
                   !.lastCall = Completed("subscribe", key, cur, sent, FALSE)]

\* subscribe from its entry to the send that suspends, or to its end.
subscribe(c, args) ==
    LET key == get_subscription_key(args)
        cur == DictGet(c.active_subscriptions, key)
    IN  IF subscribe_sends(cur)
        THEN LET msg == CallFrame("subscribe", args)
                 c1 == [c EXCEPT !.issued[key].sub = @ + 1]
             IN  IF Live(c1)
                 THEN { [r.c EXCEPT !.calls = Append(@,
                            [op |-> "subscribe", args |-> args, cur |-> cur,
                             msg |-> msg, ok |-> r.ok])] : r \in WsSend(c1, msg) }
                 ELSE { subscribe_finish(Enqueue(c1, msg), args, cur, TRUE) }
        ELSE { subscribe_finish(c, args, cur, FALSE) }

\* A variant without the early return.
unsubscribe_never_returns(current_count) == FALSE

\* unsubscribe: "if current_count == 0: ... return"
unsubscribe_returns(current_count) == current_count = 0

\* A variant that stores the new count whatever it is.
unsubscribe_sends_never(new_count) == FALSE

\* unsubscribe: "if new_count == 0"
unsubscribe_sends(new_count) == new_count = 0

\* unsubscribe after its send: del self._active_subscriptions[key], a KeyError
\* when the key is no longer there.
unsubscribe_delete(c, args, cur) ==
    LET key == get_subscription_key(args) IN
    IF HasKey(c.active_subscriptions, key)
    THEN [TouchDelete(c, key) EXCEPT
              !.active_subscriptions = DictDel(@, key),
              !.lastCall = Completed("unsubscribe", key, cur, TRUE, FALSE)]
    ELSE [c EXCEPT !.lastCall = Completed("unsubscribe", key, cur, TRUE, TRUE)]

\* unsubscribe from its entry to the send that suspends, or to its end.
unsubscribe(c, args) ==
    LET key == get_subscription_key(args)
        cur == DictGet(c.active_subscriptions, key)
        new_count == cur - 1
    IN  IF unsubscribe_returns(cur)
        THEN { [c EXCEPT !.lastCall = Completed("unsubscribe", key, cur, FALSE, FALSE)] }
        ELSE IF unsubscribe_sends(new_count)
        THEN LET msg == CallFrame("unsubscribe", args)
                 c1 == [c EXCEPT !.issued[key].unsub = @ + 1]
             IN  IF Live(c1)
                 THEN { [r.c EXCEPT !.calls = Append(@,
                            [op |-> "unsubscribe", args |-> args, cur |-> cur,
                             msg |-> msg, ok |-> r.ok])] : r \in WsSend(c1, msg) }
                 ELSE { unsubscribe_delete(Enqueue(c1, msg), args, cur) }
        ELSE { [(IF HasKey(c.active_subscriptions, key) THEN c ELSE TouchInsert(c, key))
                   EXCEPT !.active_subscriptions = DictSet(@, key, new_count),
                          !.lastCall = Completed("unsubscribe", key, cur, FALSE, FALSE)] }

RunCall(c, op, args) ==
    IF op = "subscribe" THEN subscribe(c, args) ELSE unsubscribe(c, args)

\* A suspended call resumes: the rest of _send, then the rest of the call.
call_resume(c, i) ==
    LET call == c.calls[i]
        c1 == [c EXCEPT !.calls = SubSeq(@, 1, i - 1) \o SubSeq(@, i + 1, Len(@))]
        c2 == AfterSend(c1, call.msg, call.ok)
    IN  IF call.op = "subscribe"
        THEN subscribe_finish(c2, call.args, call.cur, TRUE)
        ELSE unsubscribe_delete(c2, call.args, call.cur)

---------------------------------------------------------------------------
(* CacheService *)

Tickers == {"BTC", "ETH", "USDC"}

\* CacheService.__init__
EmptyCache == [tokens |-> {}, markets |-> {}, initialized |-> FALSE]

\* The keys of a list of tokens or markets, given as a sequence.
KeysOf(list) == { list[i] : i \in DOMAIN list }

\* A variant that keeps the entries of earlier calls.
cache_kept(old) == old

\* self._tokens_cache.clear() / self._markets_cache.clear()
cache_cleared(old) == {}

\* set_tokens: clear, then one entry per token of the list, by ticker.
set_tokens(ca, tokens) == [ca EXCEPT !.tokens = cache_cleared(@) \cup KeysOf(tokens)]

\* set_markets: clear, then one entry per market of the list, by id.
set_markets(ca, markets) == [ca EXCEPT !.markets = cache_cleared(@) \cup KeysOf(markets)]

\* A variant that does not look at the market cache.
is_ready_without_markets(ca) == ca.initialized /\ Cardinality(ca.tokens) > 0

\* is_ready
is_ready(ca) ==
    ca.initialized /\ Cardinality(ca.tokens) > 0 /\ Cardinality(ca.markets) > 0

\* mark_initialized
mark_initialized(ca) == [ca EXCEPT !.initialized = TRUE]

\* clear
clear(ca) ==
    [ca EXCEPT !.tokens = cache_cleared(@), !.markets = cache_cleared(@),
               !.initialized = FALSE]

\* The tokens of a market: base_ticker, quote_ticker.
MarketTickers(market_id) ==
    IF market_id = "BTC/USDC" THEN {"BTC", "USDC"} ELSE {"ETH", "USDC"}

\* The enhancer finds the market and both its tokens in the cache.
can_enhance(ca, market_id) ==
    market_id \in ca.markets /\ MarketTickers(market_id) \subseteq ca.tokens

---------------------------------------------------------------------------
(* ExchangeClient.initialize_cache *)

InitCallers == {"a", "b"}

InitTasks == 1..InitCalls

\* ExchangeClient.__init__: self._cache_init_task = None (0).  stage: where
\* each task made by initialize_cache is; awaits: the task a caller awaits
\* (0: none); outcome: how the caller's last call ended; started: fetches
\* begun; left: calls that may still be made.
NoInit ==
    [cache_init_task |-> 0,
     stage |-> [i \in InitTasks |-> "none"],
     awaits |-> [p \in InitCallers |-> 0],
     outcome |-> [p \in InitCallers |-> "none"],
     started |-> 0,
     left |-> InitCalls]

\* Task.done()
task_done(stage) == stage \in {"ok", "failed"}

\* A variant that never finds a task in progress.
init_in_progress_never(task, stage) == FALSE

\* "if self._cache_init_task and not self._cache_init_task.done()"
init_in_progress(task, stage) ==
    IF task = 0 THEN FALSE ELSE ~task_done(stage[task])

\* initialize_cache up to its return or its await of the task.
initialize_cache(c, p) ==
    LET c1 == [c EXCEPT !.init.left = @ - 1] IN
    IF is_ready(c1.cache)
    THEN [c1 EXCEPT !.init.outcome[p] = "ready"]
    ELSE IF init_in_progress(c1.init.cache_init_task, c1.init.stage)
    THEN [c1 EXCEPT !.init.awaits[p] = c1.init.cache_init_task,
                    !.init.outcome[p] = "none"]
    ELSE LET id == Cardinality({ i \in InitTasks : c1.init.stage[i] # "none" }) + 1
         IN  [c1 EXCEPT !.init.cache_init_task = id,
                        !.init.stage[id] = "created",
                        !.init.awaits[p] = id,
                        !.init.outcome[p] = "none"]

\* _init starts: asyncio.gather of rest.get_markets() and rest.get_tokens().
init_start(c, id) ==
    [c EXCEPT !.init.stage[id] = "fetching", !.init.started = @ + 1]

\* _init after the gather returned both lists.
init_fetched(c, id, markets, tokens) ==
    [c EXCEPT !.cache = mark_initialized(set_tokens(set_markets(@, markets), tokens)),
              !.init.stage[id] = "ok"]

\* _init, "except Exception": self._cache_init_task = None, raise.
init_failed(c, id) ==
    [c EXCEPT !.init.cache_init_task = 0, !.init.stage[id] = "failed"]

\* "return await self._cache_init_task" once the task is done.
init_returns(c, p) ==
    [c EXCEPT !.init.awaits[p] = 0,
              !.init.outcome[p] =
                  IF c.init.stage[c.init.awaits[p]] = "ok" THEN "returned" ELSE "raised"]

---------------------------------------------------------------------------
(* Facades *)

Consumers == {"A", "B"}

TradesArgs == [channel |-> "trades", market_id |-> "BTC/USDC", user_address |-> None]

\* A registered callable: a caller's callback given to on(), or the closure a
\* facade makes around the caller's handler for one identifier.
Closure(facade, id, handler) == [facade |-> facade, id |-> id, handler |-> handler]

Registration(tag, owner) == [tag |-> tag, owner |-> owner]

\* The closure on_trades makes for a consumer.
TradeHandler(market_id, co) == Closure("on_trades", market_id, co)

\* on_trades: self.on("trade", trade_handler), create_task(self.subscribe(...)).
on_trades(c, co) ==
    [c EXCEPT !.handlers = @ \cup {Registration("trade", TradeHandler(TradesArgs.market_id, co))},
              !.spawned = Append(@, [op |-> "subscribe", args |-> TradesArgs]),
              !.consumers[co] = "active"]

\* The capability on_trades returns: remove_handler(), create_task(self.unsubscribe(...)).
on_trades_unsubscribe(c, co) ==
    [c EXCEPT !.handlers = @ \ {Registration("trade", TradeHandler(TradesArgs.market_id, co))},
              !.spawned = Append(@, [op |-> "unsubscribe", args |-> TradesArgs]),
              !.consumers[co] = "released"]

Facades == {"on_trades", "on_orderbook", "on_user_orders", "on_user_trades",
            "on_user_balances"}

\* The tag a facade registers its closure under.
FacadeTag(facade) ==
    IF facade \in {"on_trades", "on_user_trades"} THEN "trade"
    ELSE IF facade = "on_orderbook" THEN "orderbook"
    ELSE IF facade = "on_user_orders" THEN "order"
    ELSE "balance"

\* The identifiers a facade can be called with.
FacadeIds(facade) ==
    IF facade \in {"on_trades", "on_orderbook"} THEN MarketIds ELSE Users

\* The subscription a facade asks for.
FacadeArgs(facade, id) ==
    IF facade = "on_trades"
    THEN [channel |-> "trades", market_id |-> id, user_address |-> None]
    ELSE IF facade = "on_orderbook"
    THEN [channel |-> "orderbook", market_id |-> id, user_address |-> None]
    ELSE [channel |-> "user", market_id |-> None, user_address |-> id]

\* A facade: self.on(tag, closure), create_task(self.subscribe(...)).
facade_on(c, facade, id, handler) ==
    [c EXCEPT !.handlers = @ \cup {Registration(FacadeTag(facade), Closure(facade, id, handler))},
              !.spawned = Append(@, [op |-> "subscribe", args |-> FacadeArgs(facade, id)])]

\* The capability a facade returns: remove_handler(), create_task(self.unsubscribe(...)).
facade_unsubscribe(c, facade, id, handler) ==
    [c EXCEPT !.handlers = @ \ {Registration(FacadeTag(facade), Closure(facade, id, handler))},
              !.spawned = Append(@, [op |-> "unsubscribe", args |-> FacadeArgs(facade, id)])]

on_orderbook(c, market_id, handler) == facade_on(c, "on_orderbook", market_id, handler)

on_user_orders(c, user_address, handler) == facade_on(c, "on_user_orders", user_address, handler)

on_user_trades(c, user_address, handler) == facade_on(c, "on_user_trades", user_address, handler)

on_user_balances(c, user_address, handler) == facade_on(c, "on_user_balances", user_address, handler)

\* A facade called by name.
call_facade(c, facade, id, handler) ==
    IF facade = "on_trades" THEN facade_on(c, "on_trades", id, handler)
    ELSE IF facade = "on_orderbook" THEN on_orderbook(c, id, handler)
    ELSE IF facade = "on_user_orders" THEN on_user_orders(c, id, handler)
    ELSE IF facade = "on_user_trades" THEN on_user_trades(c, id, handler)
    ELSE on_user_balances(c, id, handler)

---------------------------------------------------------------------------
(* format.py: to_atoms, to_display_value *)

\* Decimal and int values are held exactly, as sequences of limbs in base
\* 10000, least significant first and without leading zero limbs; <<>> is 0.
\* A str of digits is a sequence of digits, most significant first.

RECURSIVE Norm(_)
Norm(x) ==
    IF x = <<>> THEN <<>>
    ELSE IF x[Len(x)] = 0 THEN Norm(SubSeq(x, 1, Len(x) - 1))
    ELSE x

RECURSIVE DigitsValue(_)
DigitsValue(ds) ==
    IF ds = <<>> THEN 0 ELSE 10 * DigitsValue(SubSeq(ds, 1, Len(ds) - 1)) + ds[Len(ds)]

RECURSIVE Limbs(_)
Limbs(ds) ==
    IF Len(ds) <= 4 THEN <<DigitsValue(ds)>>
    ELSE <<DigitsValue(SubSeq(ds, Len(ds) - 3, Len(ds)))>> \o Limbs(SubSeq(ds, 1, Len(ds) - 4))

\* Decimal(str) / int(str) of a string of digits.
FromDigits(ds) == Norm(Limbs(ds))

RECURSIVE MulCarry(_, _, _)
MulCarry(x, c, carry) ==
    IF x = <<>> THEN (IF carry = 0 THEN <<>> ELSE <<carry>>)
    ELSE LET t == Head(x) * c + carry
         IN  <<t % 10000>> \o MulCarry(Tail(x), c, t \div 10000)

\* x * c, for 0 < c <= 10000
MulSmall(x, c) == MulCarry(x, c, 0)

RECURSIVE DivRem(_, _)
DivRem(x, c) ==
    IF x = <<>> THEN [q |-> <<>>, r |-> 0]
    ELSE LET hi == DivRem(Tail(x), c)
             t  == hi.r * 10000 + Head(x)
         IN  [q |-> <<t \div c>> \o hi.q, r |-> t % c]

\* floor(x / c), for 0 < c <= 10000
DivSmall(x, c) == Norm(DivRem(x, c).q)

IsOdd(x) == x # <<>> /\ Head(x) % 2 = 1

RECURSIVE Increment(_)
Increment(x) ==
    IF x = <<>> THEN <<1>>
    ELSE IF Head(x) < 9999 THEN <<Head(x) + 1>> \o Tail(x)
    ELSE <<0>> \o Increment(Tail(x))

RECURSIVE LessFromTop(_, _)
LessFromTop(x, y) ==
    IF x = <<>> THEN FALSE
    ELSE IF x[Len(x)] # y[Len(y)] THEN x[Len(x)] < y[Len(y)]
    ELSE LessFromTop(SubSeq(x, 1, Len(x) - 1), SubSeq(y, 1, Len(y) - 1))

\* x < y
Less(x, y) ==
    IF Len(x) # Len(y) THEN Len(x) < Len(y) ELSE LessFromTop(x, y)

RECURSIVE SubBorrow(_, _, _)
SubBorrow(x, y, borrow) ==
    IF x = <<>> THEN <<>>
    ELSE LET sub == (IF y = <<>> THEN 0 ELSE Head(y)) + borrow
             rest == IF y = <<>> THEN <<>> ELSE Tail(y)
         IN  IF Head(x) >= sub
             THEN <<Head(x) - sub>> \o SubBorrow(Tail(x), rest, 0)
             ELSE <<Head(x) + 10000 - sub>> \o SubBorrow(Tail(x), rest, 1)

\* | x - y |
Distance(x, y) ==
    IF Less(x, y) THEN Norm(SubBorrow(y, x, 0)) ELSE Norm(SubBorrow(x, y, 0))

RECURSIVE PowerOfTen(_)
PowerOfTen(n) == IF n = 0 THEN 1 ELSE 10 * PowerOfTen(n - 1)

RECURSIVE Zeros(_)
Zeros(n) == IF n = 0 THEN <<>> ELSE <<0>> \o Zeros(n - 1)

\* x * 10**decimals
TimesTenTo(x, decimals) ==
    IF x = <<>> THEN <<>>
    ELSE Zeros(decimals \div 4) \o MulSmall(x, PowerOfTen(decimals % 4))

\* floor(x / 10**decimals)
FloorOverTenTo(x, decimals) ==
    IF Len(x) <= decimals \div 4 THEN <<>>
    ELSE DivSmall(SubSeq(x, decimals \div 4 + 1, Len(x)), PowerOfTen(decimals % 4))

\* x * 2**n, thirteen bits at a time (2**13 = 8192)
RECURSIVE TimesTwoTo(_, _)
TimesTwoTo(x, n) ==
    IF n = 0 THEN x
    ELSE IF n >= 13 THEN TimesTwoTo(MulSmall(x, 8192), n - 13)
    ELSE TimesTwoTo(MulSmall(x, 2), n - 1)

TwoTo(n) == TimesTwoTo(<<1>>, n)

\* A float is mant / 2**scale with mant an integer of at most 53 bits.
Float(mant, scale) == [mant |-> mant, scale |-> scale]

\* The least scale with x * 2**scale >= limit.
RECURSIVE ScaleUp(_, _, _)
ScaleUp(x, scale, limit) ==
    IF Less(MulSmall(x, 8192), limit) THEN ScaleUp(MulSmall(x, 8192), scale + 13, limit)
    ELSE IF Less(x, limit) THEN ScaleUp(MulSmall(x, 2), scale + 1, limit)
    ELSE [x |-> x, scale |-> scale]

\* float(num / 10**decimals): the double nearest to the quotient, ties to the
\* even mantissa, for 0 <= num / 10**decimals < 2**52.
float_of_quotient(num, decimals) ==
    IF num = <<>> THEN Float(<<>>, 0)
    ELSE LET n    == ScaleUp(num, 0, TimesTenTo(TwoTo(52), decimals))
             y    == MulSmall(n.x, 2)
             q    == FloorOverTenTo(y, decimals)
             h    == DivRem(q, 2)
             m    == Norm(h.q)
             up   == h.r = 1 /\ (TimesTenTo(q, decimals) # y \/ IsOdd(m))
         IN  Float(IF up THEN Increment(m) ELSE m, n.scale)

\* to_display_value(atoms, decimals): Decimal(atoms) / Decimal(10**decimals)
\* is exact for atoms of at most 28 significant digits.
to_display_value(atoms, decimals) ==
    float_of_quotient(FromDigits(atoms), decimals)

RECURSIVE StripZeros(_)
StripZeros(ds) ==
    IF Len(ds) > 1 /\ Head(ds) = 0 THEN StripZeros(Tail(ds)) ELSE ds

\* An amount "123.45" is [int |-> <<1, 2, 3>>, frac |-> <<4, 5>>].
Amount(int, frac) == [int |-> int, frac |-> frac]

\* to_atoms(value, decimals): Decimal(str(value)) * Decimal(10**decimals) moves
\* the point (exact for an amount of at most 28 significant digits), int() cuts
\* the rest of the fraction off and str() writes it without leading zeros.
to_atoms(value, decimals) ==
    StripZeros(value.int
               \o SubSeq(value.frac, 1, Min(Len(value.frac), decimals))
               \o Zeros(decimals - Min(Len(value.frac), decimals)))

NoConv == [stage |-> "none", value |-> None, decimals |-> 0, atoms |-> <<>>,
           display |-> None]

---------------------------------------------------------------------------
(* on, off, _handle_message *)

\* Callbacks of callers; "boom" raises when it is called.
Callbacks == {"f", "boom", "bang"}

Raises(handler) == handler \in {"boom", "bang"}

\* An inbound frame: its tag, the market of its payload, and the user whose
\* subscription the server sent it for (None: a market subscription).
Message(type, market_id, user) == [type |-> type, market_id |-> market_id, user |-> user]

PongMessage == Message("pong", None, None)

Inbound ==
    { Message("trade", m, u) : m \in MarketIds, u \in Users \cup {None} }
    \cup { Message("orderbook", m, None) : m \in MarketIds }
    \cup { Message(ty, None, u) : ty \in {"order", "balance"}, u \in Users }
    \cup { PongMessage }

\* No frame taken from recv() yet.
NoDispatching ==
    [n |-> 0, log |-> <<>>,
     todo |-> [t \in {RecvTask(g) : g \in Sessions} |-> {}],
     frame |-> [t \in {RecvTask(g) : g \in Sessions} |-> 0],
     tag |-> [t \in {RecvTask(g) : g \in Sessions} |-> None],
     cur |-> [t \in {RecvTask(g) : g \in Sessions} |-> None]]

\* Nothing dispatched yet.  twice: a callable called for the frame had been
\* given to on() more than once.
NoDispatch ==
    [message |-> Message("none", None, None), invoked |-> <<>>, warnings |-> 0,
     errors |-> 0, twice |-> FALSE]

\* on: self._handlers[message_type].add(handler)
on(c, message_type, handler) ==
    LET entry == Registration(message_type, handler) IN
    [c EXCEPT !.handlers = @ \cup {entry},
              !.dupes = IF entry \in c.handlers THEN @ \cup {entry} ELSE @]

\* A variant that leaves the handler registered.
handler_kept(registered, entry) == registered

\* self._handlers[message_type].discard(handler)
handler_discarded(registered, entry) == registered \ {entry}

\* off, and the capability on returns.
off(c, message_type, handler) ==
    LET entry == Registration(message_type, handler) IN
    [c EXCEPT !.handlers = handler_discarded(@, entry), !.dupes = @ \ {entry}]

\* What one call of a registered callable does: whether the caller's handler
\* is invoked, whether a warning or an error is logged by the callable, and
\* whether an exception leaves it.
Outcome(invoked, warned, logged, raised) ==
    [invoked |-> invoked, warned |-> warned, logged |-> logged, raised |-> raised]

\* A variant that goes on without the cache.
cache_missing_never(ca) == FALSE

\* "if not self.cache.is_ready()"
cache_missing(ca) == ~is_ready(ca)

\* The rest of trade_handler / orderbook_handler once the frame is for it.
enhance_and_call(c, cl, market_id) ==
    IF cache_missing(c.cache) THEN Outcome(FALSE, TRUE, FALSE, FALSE)
    ELSE IF ~can_enhance(c.cache, market_id) THEN Outcome(FALSE, FALSE, TRUE, FALSE)
    ELSE Outcome(TRUE, FALSE, Raises(cl.handler), FALSE)

\* trade_handler of on_trades, orderbook_handler of on_orderbook.
market_handler(c, cl, msg, type) ==
    IF msg.type # type \/ msg.market_id # cl.id
    THEN Outcome(FALSE, FALSE, FALSE, FALSE)
    ELSE enhance_and_call(c, cl, cl.id)

\* trade_handler of on_user_trades.
user_trade_handler(c, cl, msg) ==
    IF msg.type # "trade"
    THEN Outcome(FALSE, FALSE, FALSE, FALSE)
    ELSE enhance_and_call(c, cl, msg.market_id)

\* order_handler of on_user_orders, balance_handler of on_user_balances.
user_handler(c, cl, msg, type) ==
    IF msg.type = type
    THEN Outcome(TRUE, FALSE, FALSE, Raises(cl.handler))
    ELSE Outcome(FALSE, FALSE, FALSE, FALSE)

\* handler(message) for a registered callable.
call_handler(c, cl, msg) ==
    IF cl.facade = "on" THEN Outcome(TRUE, FALSE, FALSE, Raises(cl.handler))
    ELSE IF cl.facade = "on_trades" THEN market_handler(c, cl, msg, "trade")
    ELSE IF cl.facade = "on_orderbook" THEN market_handler(c, cl, msg, "orderbook")
    ELSE IF cl.facade = "on_user_trades" THEN user_trade_handler(c, cl, msg)
    ELSE IF cl.facade = "on_user_orders" THEN user_handler(c, cl, msg, "order")
    ELSE user_handler(c, cl, msg, "balance")

\* A variant in which the exception ends the loop over the handlers.
dispatch_abandoned(rest) == {}

\* "except Exception as e": the loop goes on with the handlers that remain.
dispatch_continues(rest) == rest

\* One turn of "for handler in list(self._handlers[msg_type])": the record of
\* the dispatch after the call of cl.
after_call(c, msg, cl, d) ==
    LET o == call_handler(c, cl, msg) IN
    [d EXCEPT !.invoked = IF o.invoked THEN Append(@, cl) ELSE @,
              !.twice = @ \/ Registration(msg.type, cl) \in c.dupes,
              !.warnings = @ + (IF o.warned THEN 1 ELSE 0),
              !.errors = @ + (IF o.logged \/ o.raised THEN 1 ELSE 0)]

\* The loop over the handlers of the tag, in any order a set can list them.
RECURSIVE dispatch(_, _, _, _)
dispatch(c, msg, todo, d) ==
    IF todo = {} THEN {d}
    ELSE UNION { dispatch(c, msg,
                          IF call_handler(c, cl, msg).raised
                          THEN dispatch_continues(todo \ {cl}) ELSE todo \ {cl},
                          after_call(c, msg, cl, d)) : cl \in todo }

\* A variant that hands pong frames to the handlers.
is_pong_never(msg_type) == FALSE

\* "if msg_type == 'pong'"
is_pong(msg_type) == msg_type = "pong"

\* _handle_message
handle_message(c, msg) ==
    LET fresh == [NoDispatch EXCEPT !.message = msg] IN
    IF is_pong(msg.type)
    THEN { [c EXCEPT !.sincePong = 0, !.lastDispatch = fresh] }
    ELSE { [c EXCEPT !.lastDispatch = d] :
               d \in dispatch(c, msg,
                        { r.owner : r \in { x \in c.handlers : x.tag = msg.type } },
                        fresh) }

---------------------------------------------------------------------------
(* _receive_loop, _ping_loop, close *)

\* The finally block of _receive_loop.
receive_finally(c, t) ==
    LET c1 == [c EXCEPT !.is_connected = FALSE] IN
    IF c1.should_reconnect THEN schedule_reconnect(c1, t) ELSE TaskDone(c1, t)

\* "while self._ws and not self._ws.closed", then the await of recv().
receive_loop(c, t) ==
    IF c.ws = "open" THEN SetTask(c, t, At("recv")) ELSE receive_finally(c, t)

\* Handlers that are coroutine functions ("slow") beside plain ones ("f").
AsyncCallbacks == {"f", "slow"}

\* A variant that takes no result for a coroutine: it is never awaited.
is_coroutine_never(handler) == FALSE

\* "if asyncio.iscoroutine(result)"
is_coroutine(handler) == handler = "slow"

Event(n, tag, handler, ev) == [frame |-> n, tag |-> tag, handler |-> handler, ev |-> ev]

Logged(c, t, handler, ev) ==
    [c EXCEPT !.dispatching.log =
                  Append(@, Event(c.dispatching.frame[t], c.dispatching.tag[t],
                                  handler, ev))]

\* Handlers that change the registrations of the tag they are called for:
\* "adder" registers "late", "once" deregisters itself, "remover" deregisters
\* "f".
ReentrantCallbacks == {"adder", "once", "remover"}

\* "result = handler(message)" for a plain handler: what its body does to the
\* client.
handler_body(c, tag, handler) ==
    IF handler = "adder" THEN on(c, tag, Closure("on", None, "late"))
    ELSE IF handler = "once" THEN off(c, tag, Closure("on", None, "once"))
    ELSE IF handler = "remover" THEN off(c, tag, Closure("on", None, "f"))
    ELSE c

\* A variant that goes over the registered set itself: a handler deregistered
\* before its turn is passed over.
pending_registered(c, t) ==
    { h \in c.dispatching.todo[t] :
          Registration(c.dispatching.tag[t], Closure("on", None, h)) \in c.handlers }

\* "for handler in list(self._handlers[msg_type])": the rest of the copy made
\* when the loop began.
pending(c, t) == c.dispatching.todo[t]

\* The loop over the handlers in _handle_message, from its next turn to the
\* await of a coroutine, or to its end and on to the next recv().  A plain
\* handler has returned when its call returns; a coroutine runs only when it
\* is awaited.
RECURSIVE handle_from(_, _)
handle_from(c, t) ==
    IF pending(c, t) = {}
    THEN { receive_loop(c, t) }
    ELSE UNION {
        LET called == Logged([c EXCEPT !.dispatching.todo[t] = @ \ {h}], t, h, "call")
        IN  IF is_coroutine(h)
            THEN { SetTask([called EXCEPT !.dispatching.cur[t] = h], t,
                           At("handler_await")) }
            ELSE handle_from(IF h = "slow" THEN called
                             ELSE Logged(handler_body(called, c.dispatching.tag[t], h),
                                         t, h, "return"), t)
        : h \in pending(c, t) }

\* recv() returned a frame: _handle_message up to its first await or its end.
handle_begin(c, t, msg) ==
    LET n == c.dispatching.n + 1
        hs == { r.owner.handler : r \in { x \in c.handlers : x.tag = msg.type } }
    IN  handle_from([c EXCEPT !.dispatching.n = n,
                              !.dispatching.frame[t] = n,
                              !.dispatching.tag[t] = msg.type,
                              !.dispatching.todo[t] = hs], t)

\* The coroutine a handler returned has finished: the loop goes on.
handle_resume(c, t) ==
    handle_from([Logged(c, t, c.dispatching.cur[t], "return")
                    EXCEPT !.dispatching.cur[t] = None], t)

\* A variant that times out at the limit itself.
pong_timed_out_at_limit(time_since_pong) == time_since_pong >= PongTimeout

\* "if time_since_pong > self._pong_timeout"
pong_timed_out(time_since_pong) == time_since_pong > PongTimeout

\* "while self._should_reconnect and self._is_connected", then the sleep.
ping_loop(c, t) ==
    IF c.should_reconnect /\ c.is_connected
    THEN SetTask(c, t, [At("ping_sleep") EXCEPT !.timer = PingInterval])
    ELSE TaskDone(c, t)

\* _ping_loop after its sleep.
ping_check(c, t) ==
    IF pong_timed_out(c.sincePong)
    THEN { TaskDone([c EXCEPT !.ws = IF @ = "none" THEN "none" ELSE "closed"], t) }
    ELSE IF Live(c)
    THEN { SetTask(r.c, t, [At("ping_send") EXCEPT !.msg = PingFrame, !.ok = r.ok])
               : r \in WsSend(c, PingFrame) }
    ELSE { ping_loop(Enqueue(c, PingFrame), t) }

Finished(c, t) == c.tasks[t].pc \in {"done", "none"}

\* Task.cancel(): nothing for a finished task.
Cancel(c, t) ==
    IF Finished(c, t) THEN c ELSE [c EXCEPT !.tasks[t].cancel = TRUE]

\* close() from "if self._ws:" on.
close_ws(c) ==
    IF c.ws = "open"
    THEN [c EXCEPT !.ws = "closed", !.closer = "closing_ws"]
    ELSE [c EXCEPT !.ws = "none", !.is_connected = FALSE, !.closer = "done"]

\* close() from "if self._receive_task:" on (self._reconnect_task is never set).
close_receive(c) ==
    IF c.receive_task = 0
    THEN close_ws(c)
    ELSE LET c1 == Cancel(c, RecvTask(c.receive_task)) IN
         IF Finished(c1, RecvTask(c.receive_task))
         THEN close_ws(c1)
         ELSE [c1 EXCEPT !.closer = "wait_receive"]

\* close() from its entry.
close(c) ==
    LET c0 == [c EXCEPT !.should_reconnect = FALSE] IN
    IF c0.ping_task = 0
    THEN close_receive(c0)
    ELSE LET c1 == Cancel(c0, PingTask(c0.ping_task)) IN
         IF Finished(c1, PingTask(c0.ping_task))
         THEN close_receive(c1)
         ELSE [c1 EXCEPT !.closer = "wait_ping"]

\* CancelledError is thrown into a task at its suspension point.
cancelled(c, t) ==
    LET pc == c.tasks[t].pc IN
    IF pc = "recv" THEN receive_finally(c, t)
    ELSE IF pc = "handler_await"
    THEN receive_finally([Logged(c, t, c.dispatching.cur[t], "cancelled")
                             EXCEPT !.dispatching.cur[t] = None,
                                    !.dispatching.todo[t] = {}], t)
    ELSE TaskDone(c, t)

---------------------------------------------------------------------------
(* Actions: one run of one task, or one event of the transport or the clock *)

\* A task inside the flush loop that never suspends keeps the event loop.
Spinning == \E t \in TaskIds : tasks[t].pc = "flush_spin"

Runnable(t, pcv) == ~Spinning /\ tasks[t].pc = pcv /\ ~tasks[t].cancel

Spend(c, what) == [c EXCEPT !.budget[what] = @ - 1]

\* The task made by __init__ starts _connect.
MainStart ==
    /\ Runnable(MainTask, "ready")
    /\ Commit(connect_begin(State, MainTask))

\* websockets.connect returns a session.
ConnectOk(t) ==
    /\ Runnable(t, "connecting")
    /\ budget.conn > 0
    /\ \E c \in connect_established(Spend(State, "conn"), t) : Commit(c)

\* websockets.connect raises.
ConnectFail(t) ==
    /\ Runnable(t, "connecting")
    /\ budget.fail > 0
    /\ Commit(ConnectError(Spend(State, "fail"), t))

\* The send of a replayed subscribe frame returns or raises.
ReplayResume(t) ==
    /\ Runnable(t, "replay_send")
    /\ \E c \in ReplayFrom(AfterSend(State, tasks[t].msg, tasks[t].ok), t) : Commit(c)

\* The send of a queued frame returns or raises.
FlushResume(t) ==
    /\ Runnable(t, "flush_send")
    /\ \E c \in FlushFrom(AfterSend(State, tasks[t].msg, tasks[t].ok), t) : Commit(c)

\* One more turn of the flush loop with no live session: pop, append.
FlushSpin(t) ==
    /\ tasks[t].pc = "flush_spin"
    /\ Commit(Enqueue([State EXCEPT !.message_queue = Tail(@)], Head(message_queue)))

\* The sleep of _schedule_reconnect ends: count the attempt, call _connect.
ReconnectWake(t) ==
    /\ Runnable(t, "sleep_reconnect")
    /\ tasks[t].timer = 0
    /\ Commit(connect_begin([State EXCEPT !.reconnect_attempt = @ + 1], t))

\* A receive task starts.
ReceiveStart(t) ==
    /\ t[1] = "recv"
    /\ Runnable(t, "ready")
    /\ Commit(receive_loop(State, t))

\* recv() returns a pong frame: _handle_message stores the time.
ReceivePong(t) ==
    /\ Runnable(t, "recv")
    /\ ws = "open"
    /\ \E c \in handle_message(State, PongMessage) : Commit(receive_loop(c, t))

\* recv() returns a frame other than a pong: _handle_message dispatches it.
ReceiveFrame(t, msg) ==
    /\ Runnable(t, "recv")
    /\ ws = "open"
    /\ msg.type # "pong"
    /\ \E c \in handle_message(State, msg) : Commit(receive_loop(c, t))

\* recv() returns a frame whose handlers may be coroutine functions.
ReceiveTake(t, msg) ==
    /\ Runnable(t, "recv")
    /\ ws = "open"
    /\ dispatching.n < AwaitFrames
    /\ \E c \in handle_begin(State, t, msg) : Commit(c)

\* The coroutine of a handler that the receive loop awaits finishes.
HandlerResume(t) ==
    /\ Runnable(t, "handler_await")
    /\ \E c \in handle_resume(State, t) : Commit(c)

\* client.on(message_type, handler)
On(message_type, handler) ==
    /\ ~Spinning
    /\ Commit(on(State, message_type, Closure("on", None, handler)))

\* client.off(message_type, handler)
Off(message_type, handler) ==
    /\ ~Spinning
    /\ Commit(off(State, message_type, Closure("on", None, handler)))

\* The capability that on returned for a registration is invoked.
OnCapability(message_type, handler) ==
    /\ ~Spinning
    /\ Registration(message_type, Closure("on", None, handler)) \in handlers
    /\ Commit(off(State, message_type, Closure("on", None, handler)))

\* The subscription an inbound frame is sent for.
MessageKey(msg) ==
    IF msg.user # None THEN [channel |-> "user", identifier |-> msg.user]
    ELSE IF msg.type = "orderbook" THEN [channel |-> "orderbook", identifier |-> msg.market_id]
    ELSE [channel |-> "trades", identifier |-> msg.market_id]

\* recv() returns an event of a subscription the client holds.
ReceiveEvent(t, msg) ==
    /\ Count(MessageKey(msg)) > 0
    /\ ReceiveFrame(t, msg)

\* A facade is called with a handler it has no closure for yet.
OnFacade(facade, id, handler) ==
    /\ ~Spinning
    /\ budget.calls > 0
    /\ Registration(FacadeTag(facade), Closure(facade, id, handler)) \notin handlers
    /\ Commit(call_facade(Spend(State, "calls"), facade, id, handler))

\* The capability a facade returned is invoked.
FacadeUnsubscribe(facade, id, handler) ==
    /\ ~Spinning
    /\ budget.calls > 0
    /\ Registration(FacadeTag(facade), Closure(facade, id, handler)) \in handlers
    /\ Commit(facade_unsubscribe(Spend(State, "calls"), facade, id, handler))

\* atoms = to_atoms(value, decimals)
ToAtoms(value, decimals) ==
    /\ conv.stage # "atoms"
    /\ Commit([State EXCEPT !.conv = [stage |-> "atoms", value |-> value,
                                      decimals |-> decimals,
                                      atoms |-> to_atoms(value, decimals),
                                      display |-> None]])

\* to_display_value(atoms, decimals)
ToDisplayValue ==
    /\ conv.stage = "atoms"
    /\ Commit([State EXCEPT !.conv.stage = "display",
                            !.conv.display = to_display_value(conv.atoms, conv.decimals)])

\* await client.initialize_cache()
InitializeCache(p) ==
    /\ init.left > 0
    /\ init.awaits[p] = 0
    /\ Commit(initialize_cache(State, p))

\* The task made by initialize_cache starts.
InitStart(id) ==
    /\ init.stage[id] = "created"
    /\ Commit(init_start(State, id))

\* Both requests of the fetch returned.
InitFetched(id, markets, tokens) ==
    /\ init.stage[id] = "fetching"
    /\ Commit(init_fetched(State, id, markets, tokens))

\* A request of the fetch raised.
InitFailed(id) ==
    /\ init.stage[id] = "fetching"
    /\ Commit(init_failed(State, id))

\* A caller that awaits the task resumes, the task being done.
InitReturns(p) ==
    /\ init.awaits[p] # 0
    /\ task_done(init.stage[init.awaits[p]])
    /\ Commit(init_returns(State, p))

\* cache.set_tokens(tokens)
SetTokens(tokens) ==
    Commit([State EXCEPT !.cache = set_tokens(@, tokens),
                         !.dropped = cache.tokens \ KeysOf(tokens)])

\* cache.set_markets(markets)
SetMarkets(markets) ==
    Commit([State EXCEPT !.cache = set_markets(@, markets),
                         !.dropped = cache.markets \ KeysOf(markets)])

\* cache.mark_initialized()
MarkInitialized ==
    Commit([State EXCEPT !.cache = mark_initialized(@), !.marked = TRUE])

\* cache.clear()
Clear ==
    Commit([State EXCEPT !.cache = clear(@), !.marked = FALSE])

\* recv() raises ConnectionClosed.
ReceiveClosed(t) ==
    /\ Runnable(t, "recv")
    /\ ws # "open"
    /\ Commit(receive_finally(State, t))

\* A ping task starts.
PingStart(t) ==
    /\ t[1] = "ping"
    /\ Runnable(t, "ready")
    /\ Commit(ping_loop(State, t))

\* The sleep of _ping_loop ends.
PingWake(t) ==
    /\ Runnable(t, "ping_sleep")
    /\ tasks[t].timer = 0
    /\ \E c \in ping_check(State, t) : Commit(c)

\* The send of a ping frame returns or raises.
PingResume(t) ==
    /\ Runnable(t, "ping_send")
    /\ Commit(ping_loop(AfterSend(State, tasks[t].msg, tasks[t].ok), t))

\* A cancelled task runs next: CancelledError at its suspension point.
Cancelled(t) ==
    /\ ~Spinning
    /\ tasks[t].cancel
    /\ Commit(cancelled(State, t))

\* await client.subscribe(...) / await client.unsubscribe(...)
Call(op, args) ==
    /\ ~Spinning
    /\ budget.calls > 0
    /\ \E c \in RunCall(Spend(State, "calls"), op, args) : Commit(c)

\* A subscribe / unsubscribe suspended in its send resumes.
CallResume(i) ==
    /\ ~Spinning
    /\ Commit(call_resume(State, i))

OnTrades(co) ==
    /\ ~Spinning
    /\ budget.calls > 0
    /\ consumers[co] = "none"
    /\ Commit(on_trades(Spend(State, "calls"), co))

OnTradesUnsubscribe(co) ==
    /\ ~Spinning
    /\ consumers[co] = "active"
    /\ Commit(on_trades_unsubscribe(State, co))

\* The oldest task made by a facade starts (the loop runs them in creation order).
SpawnedStart ==
    /\ ~Spinning
    /\ spawned # <<>>
    /\ \E c \in RunCall([State EXCEPT !.spawned = Tail(@)],
                        Head(spawned).op, Head(spawned).args) : Commit(c)

\* await client.close()
Close ==
    /\ ~Spinning
    /\ closer = "idle"
    /\ budget.close > 0
    /\ Commit(close(Spend(State, "close")))

\* close() resumes: the task it awaits has finished, or ws.close() returned.
CloseResume ==
    /\ ~Spinning
    /\ \/ /\ closer = "wait_ping"
          /\ Finished(State, PingTask(ping_task))
          /\ Commit(close_receive(State))
       \/ /\ closer = "wait_receive"
          /\ Finished(State, RecvTask(receive_task))
          /\ Commit(close_ws(State))
       \/ /\ closer = "closing_ws"
          /\ Commit([State EXCEPT !.ws = "none", !.is_connected = FALSE,
                                  !.closer = "done"])

\* The transport loses the session.
Drop ==
    /\ ws = "open"
    /\ budget.drop > 0
    /\ Commit(Spend([State EXCEPT !.ws = "closed"], "drop"))

Sleeping == { t \in TaskIds : tasks[t].pc \in {"sleep_reconnect", "ping_sleep"} }

\* Time passes, up to the next timer that expires.
Advance ==
    /\ budget.tick > 0
    /\ Sleeping # {}
    /\ \A t \in Sleeping : tasks[t].timer > 0
    /\ LET d == CHOOSE x \in { tasks[t].timer : t \in Sleeping } :
                    \A t \in Sleeping : x <= tasks[t].timer
       IN  Commit(Spend([State EXCEPT
               !.tasks = [t \in TaskIds |->
                   IF t \in Sleeping THEN [tasks[t] EXCEPT !.timer = @ - d] ELSE tasks[t]],
               !.sincePong = Min(@ + d, SinceCap)], "tick"))

---------------------------------------------------------------------------
(* Specifications *)

InitWith(b) ==
    /\ ws = "none"
    /\ is_connected = FALSE
    /\ reconnect_attempt = 0
    /\ should_reconnect = TRUE
    /\ message_queue = <<>>
    /\ active_subscriptions = <<>>
    /\ handlers = {}
    /\ ping_task = 0
    /\ receive_task = 0
    /\ tasks = [t \in TaskIds |-> IF t = MainTask THEN At("ready") ELSE NoTask]
    /\ calls = <<>>
    /\ spawned = <<>>
    /\ consumers = [co \in Consumers |-> "none"]
    /\ closer = "idle"
    /\ sincePong = SinceCap
    /\ sess = 0
    /\ wire = <<>>
    /\ issued = [k \in Keys |-> [sub |-> 0, unsub |-> 0]]
    /\ lastCall = NoCall
    /\ nq = 0
    /\ opensAfterClose = 0
    /\ cache = EmptyCache
    /\ lastDispatch = NoDispatch
    /\ marked = FALSE
    /\ dupes = {}
    /\ dropped = {}
    /\ conv = NoConv
    /\ init = NoInit
    /\ dispatching = NoDispatching
    /\ budget = b

Budget(nCalls, nConn, nFail, nDrop, nSendFail, nTick, nClose) ==
    [calls |-> nCalls, conn |-> nConn, fail |-> nFail, drop |-> nDrop,
     sendfail |-> nSendFail, tick |-> nTick, close |-> nClose]

\* Calls that do not overlap, on a client that connects, loses its session
\* and has sends fail.
InitSerial == InitWith(Budget(SerialCalls, 1, 0, 1, SerialSendFail, 0, 0))

NextSerial ==
    \/ MainStart
    \/ \E t \in TaskIds : ConnectOk(t)
    \/ \E t \in TaskIds : ReplayResume(t)
    \/ \E t \in TaskIds : FlushResume(t)
    \/ \E t \in TaskIds : FlushSpin(t)
    \/ \E t \in TaskIds : ReceiveStart(t)
    \/ \E t \in TaskIds : ReceiveClosed(t)
    \/ \E t \in TaskIds : PingStart(t)
    \/ \E i \in 1..Len(calls) : CallResume(i)
    \/ Drop
    \/ \E op \in {"subscribe", "unsubscribe"}, a \in ArgsSet :
           calls = <<>> /\ Call(op, a)

SpecSerial == InitSerial /\ [][NextSerial]_vars

\* Two consumers call on_trades for the same market, then invoke the capabilities
\* they got, on a client that connects.
InitFacade == InitWith(Budget(FacadeCalls, 1, 0, 0, 0, 0, 0))

NextFacade ==
    \/ MainStart
    \/ \E t \in TaskIds : ConnectOk(t)
    \/ \E t \in TaskIds : ReplayResume(t)
    \/ \E t \in TaskIds : FlushResume(t)
    \/ \E t \in TaskIds : ReceiveStart(t)
    \/ \E t \in TaskIds : PingStart(t)
    \/ \E i \in 1..Len(calls) : CallResume(i)
    \/ \E co \in Consumers : OnTrades(co)
    \/ \E co \in Consumers :
           (\A other \in Consumers : consumers[other] # "none") /\ OnTradesUnsubscribe(co)
    \/ SpawnedStart

SpecFacade == InitFacade /\ [][NextFacade]_vars

\* Calls on one key that may overlap, on a client that connects.
InitOverlap == InitWith(Budget(OverlapCalls, 1, 0, 0, 0, 0, 0))

NextOverlap ==
    \/ MainStart
    \/ \E t \in TaskIds : ConnectOk(t)
    \/ \E t \in TaskIds : ReplayResume(t)
    \/ \E t \in TaskIds : FlushResume(t)
    \/ \E t \in TaskIds : ReceiveStart(t)
    \/ \E t \in TaskIds : PingStart(t)
    \/ \E i \in 1..Len(calls) : CallResume(i)
    \/ \E op \in {"subscribe", "unsubscribe"} : Call(op, TradesArgs)

SpecOverlap == InitOverlap /\ [][NextOverlap]_vars

\* Calls made while the client is not connected; the session is lost once and
\* the client reconnects after its delay.
InitReplay == InitWith(Budget(ReplayCalls, 2, 0, 1, 0, 1, 0))

NextReplay ==
    \/ MainStart
    \/ \E t \in TaskIds : ConnectOk(t)
    \/ \E t \in TaskIds : ReplayResume(t)
    \/ \E t \in TaskIds : FlushResume(t)
    \/ \E t \in TaskIds : FlushSpin(t)
    \/ \E t \in TaskIds : ReconnectWake(t)
    \/ \E t \in TaskIds : ReceiveStart(t)
    \/ \E t \in TaskIds : ReceiveClosed(t)
    \/ \E t \in TaskIds : PingStart(t)
    \/ Drop
    \/ (\E t \in TaskIds : tasks[t].pc = "sleep_reconnect") /\ Advance
    \/ \E op \in {"subscribe", "unsubscribe"}, a \in ArgsSet :
           ~is_connected /\ Call(op, a)

SpecReplay == InitReplay /\ [][NextReplay]_vars

\* close() called at any moment of a client that connects, fails to connect,
\* loses its session and waits out reconnect delays; no subscriptions.
InitClose == InitWith(Budget(0, MaxConn, CloseFails, 1, 0, CloseTicks, 1))

NextClose ==
    \/ MainStart
    \/ \E t \in TaskIds : ConnectOk(t)
    \/ \E t \in TaskIds : ConnectFail(t)
    \/ \E t \in TaskIds : ReconnectWake(t)
    \/ \E t \in TaskIds : ReceiveStart(t)
    \/ \E t \in TaskIds : ReceiveClosed(t)
    \/ \E t \in TaskIds : PingStart(t)
    \/ \E t \in TaskIds : Cancelled(t)
    \/ Close
    \/ CloseResume
    \/ Drop
    \/ Advance

SpecClose == InitClose /\ [][NextClose]_vars

\* A session on which pongs arrive or not, as time passes: no calls, no
\* transport failures.
InitLive == InitWith(Budget(0, MaxConn, 0, 0, 0, LiveTicks, 0))

NextLive ==
    \/ MainStart
    \/ \E t \in TaskIds : ConnectOk(t)
    \/ \E t \in TaskIds : ReconnectWake(t)
    \/ \E t \in TaskIds : ReceiveStart(t)
    \/ \E t \in TaskIds : ReceivePong(t)
    \/ \E t \in TaskIds : ReceiveClosed(t)
    \/ \E t \in TaskIds : PingStart(t)
    \/ \E t \in TaskIds : PingWake(t)
    \/ \E t \in TaskIds : PingResume(t)
    \/ Advance

SpecLive == InitLive /\ [][NextLive]_vars

\* Connect attempts that fail one after another, before and after a session.
InitBackoff == InitWith(Budget(0, 1, BackoffFails, 1, 0, BackoffTicks, 0))

NextBackoff ==
    \/ MainStart
    \/ \E t \in TaskIds : ConnectOk(t)
    \/ \E t \in TaskIds : ConnectFail(t)
    \/ \E t \in TaskIds : ReconnectWake(t)
    \/ \E t \in TaskIds : ReceiveStart(t)
    \/ \E t \in TaskIds : ReceiveClosed(t)
    \/ \E t \in TaskIds : PingStart(t)
    \/ \E t \in TaskIds : PingWake(t)
    \/ \E t \in TaskIds : PingResume(t)
    \/ Drop
    \/ Advance

SpecBackoff == InitBackoff /\ [][NextBackoff]_vars

\* Callbacks registered with on and removed with off or their capability,
\* while frames arrive on a session.
InitDispatch == InitWith(Budget(0, 1, 0, 0, 0, DispatchTicks, 0))

RawTags == {"trade", "pong"}

\* The registrations callers make: three callbacks for trades, one for pongs.
RawUses == { <<"trade", h>> : h \in Callbacks } \cup { <<"pong", "f">> }

DispatchInbound == { Message("trade", "BTC/USDC", None), Message("order", None, "0xA") }

NextDispatch ==
    \/ MainStart
    \/ \E t \in TaskIds : ConnectOk(t)
    \/ \E t \in TaskIds : ReceiveStart(t)
    \/ \E t \in TaskIds : ReceivePong(t)
    \/ \E t \in TaskIds, msg \in DispatchInbound : ReceiveFrame(t, msg)
    \/ \E t \in TaskIds : PingStart(t)
    \/ \E t \in TaskIds : PingWake(t)
    \/ \E t \in TaskIds : PingResume(t)
    \/ Advance
    \/ \E u \in RawUses : On(u[1], u[2])
    \/ \E u \in RawUses : Off(u[1], u[2])
    \/ \E u \in RawUses : OnCapability(u[1], u[2])

SpecDispatch == InitDispatch /\ [][NextDispatch]_vars

\* Facades and their capabilities called on a connected client whose earlier
\* subscriptions are done, while events of the held subscriptions arrive and
\* the cache is initialized in the order of sdk.initialize_cache: markets,
\* tokens, mark_initialized.
InitHandlers == InitWith(Budget(HandlerCalls, 1, 0, 0, 0, 0, 0))

AllTokens == <<"BTC", "ETH", "USDC">>

SomeMarkets == { <<"BTC/USDC", "ETH/USDC">>, <<"ETH/USDC">> }

\* The market facades are called for one market, the user facades for both users.
HandlerIds(facade) == FacadeIds(facade) \ {"ETH/USDC"}

Settled == is_connected /\ spawned = <<>> /\ calls = <<>>

NextHandlers ==
    \/ MainStart
    \/ \E t \in TaskIds : ConnectOk(t)
    \/ \E t \in TaskIds : ReceiveStart(t)
    \/ \E t \in TaskIds : PingStart(t)
    \/ \E t \in TaskIds, msg \in Inbound : Settled /\ ReceiveEvent(t, msg)
    \/ \E f \in Facades : \E id \in HandlerIds(f) : Settled /\ OnFacade(f, id, "f")
    \/ \E f \in Facades : \E id \in HandlerIds(f) : Settled /\ FacadeUnsubscribe(f, id, "f")
    \/ SpawnedStart
    \/ \E i \in 1..Len(calls) : CallResume(i)
    \/ \E ms \in SomeMarkets : Settled /\ cache.markets = {} /\ SetMarkets(ms)
    \/ Settled /\ cache.markets # {} /\ cache.tokens = {} /\ SetTokens(AllTokens)
    \/ Settled /\ cache.tokens # {} /\ ~cache.initialized /\ MarkInitialized

SpecHandlers == InitHandlers /\ [][NextHandlers]_vars

\* The cache alone: filled from lists of tokens and of markets (a key may
\* occur twice in a list), marked and cleared in any order.
InitCache == InitWith(Budget(0, 0, 0, 0, 0, 0, 0))

ListsOver(S) == UNION { [1..n -> S] : n \in 0..MaxList }

NextCache ==
    \/ \E tokens \in ListsOver(Tickers) : SetTokens(tokens)
    \/ \E markets \in ListsOver(MarketIds) : SetMarkets(markets)
    \/ MarkInitialized
    \/ Clear

SpecCache == InitCache /\ [][NextCache]_vars

\* Amounts of at most 28 significant digits with no more fractional digits
\* than the token has decimals, converted to atoms and back.
InitFormat == InitWith(Budget(0, 0, 0, 0, 0, 0, 0))

IntParts ==
    { <<0>>, <<1>>, <<1, 1, 0, 0, 0, 0>>, <<9, 0, 0, 7, 1, 9, 9, 2>>,
      <<1, 2, 3, 4, 5, 6, 7, 8, 9, 0>> }

FracParts ==
    { <<>>, <<5>>, <<5, 0>>, <<0, 0, 0, 0, 0, 1>>, <<1, 2, 3, 4, 5, 6>>,
      <<5, 4, 7, 4, 0, 9, 9, 3>>, <<0, 0, 0, 0, 0, 0, 0, 1>>,
      Zeros(17) \o <<1>>, <<0, 1>> \o Zeros(15) \o <<1>> }

Amounts == { Amount(i, f) : i \in IntParts, f \in FracParts }

TokenDecimals == {6, 8, 18}

NextFormat ==
    \/ \E value \in Amounts, decimals \in TokenDecimals :
           Len(value.frac) <= decimals /\ ToAtoms(value, decimals)
    \/ ToDisplayValue

SpecFormat == InitFormat /\ [][NextFormat]_vars

\* A session that is lost once, as time passes: the client reconnects after
\* its delay while the loops of the lost session are where the loss found them.
InitStale == InitWith(Budget(0, MaxConn, 0, 1, 0, StaleTicks, 0))

NextStale ==
    \/ MainStart
    \/ \E t \in TaskIds : ConnectOk(t)
    \/ \E t \in TaskIds : ReconnectWake(t)
    \/ \E t \in TaskIds : ReceiveStart(t)
    \/ \E t \in TaskIds : ReceivePong(t)
    \/ \E t \in TaskIds : ReceiveClosed(t)
    \/ \E t \in TaskIds : PingStart(t)
    \/ \E t \in TaskIds : PingWake(t)
    \/ \E t \in TaskIds : PingResume(t)
    \/ Drop
    \/ Advance

SpecStale == InitStale /\ [][NextStale]_vars

\* Calls made while no session is live: before the first connect, after the
\* session was lost, after close(); a ping loop that wakes without a session.
InitQueue == InitWith(Budget(QueueCalls, 1, 0, 1, 0, QueueTicks, 1))

NextQueue ==
    \/ MainStart
    \/ \E t \in TaskIds : ConnectOk(t)
    \/ \E t \in TaskIds : ReplayResume(t)
    \/ \E t \in TaskIds : FlushResume(t)
    \/ \E t \in TaskIds : ReconnectWake(t)
    \/ \E t \in TaskIds : ReceiveStart(t)
    \/ \E t \in TaskIds : ReceiveClosed(t)
    \/ \E t \in TaskIds : PingStart(t)
    \/ \E t \in TaskIds : PingWake(t)
    \/ \E t \in TaskIds : PingResume(t)
    \/ \E t \in TaskIds : Cancelled(t)
    \/ Close
    \/ CloseResume
    \/ Drop
    \/ Advance
    \/ \E op \in {"subscribe", "unsubscribe"}, a \in ArgsSet :
           ~Live(State) /\ Call(op, a)

SpecQueue == InitQueue /\ [][NextQueue]_vars

\* Calls at any moment, also during the replay of a connect, on a client
\* that loses its session and reconnects after its delay.
InitSession == InitWith(Budget(SessionCalls, MaxConn, 0, 1, 0, SessionTicks, 0))

NextSession ==
    \/ MainStart
    \/ \E t \in TaskIds : ConnectOk(t)
    \/ \E t \in TaskIds : ReplayResume(t)
    \/ \E t \in TaskIds : FlushResume(t)
    \/ \E t \in TaskIds : ReconnectWake(t)
    \/ \E t \in TaskIds : ReceiveStart(t)
    \/ \E t \in TaskIds : ReceiveClosed(t)
    \/ \E t \in TaskIds : PingStart(t)
    \/ \E i \in 1..Len(calls) : CallResume(i)
    \/ Drop
    \/ (\E t \in TaskIds : tasks[t].pc = "sleep_reconnect") /\ Advance
    \/ \E a \in ArgsSet : Call("subscribe", a)

SpecSession == InitSession /\ [][NextSession]_vars

\* Inbound frames of two tags whose handlers, plain ones and coroutine
\* functions, are registered at any moment, on a client that loses its
\* session, reconnects, and is closed at any moment.  The ping loops,
\* which have no part in the dispatch, take no step in this scenario.
InitAwait == InitWith(Budget(0, MaxConn, 0, 1, 0, AwaitTicks, 1))

AwaitUses == { <<"trade", h>> : h \in AsyncCallbacks } \cup { <<"order", "slow">> }

AwaitInbound == { Message("trade", "BTC/USDC", None), Message("order", None, "0xA") }

NextAwait ==
    \/ MainStart
    \/ \E t \in TaskIds : ConnectOk(t)
    \/ \E t \in TaskIds : ReconnectWake(t)
    \/ \E t \in TaskIds : ReceiveStart(t)
    \/ \E t \in TaskIds : ReceiveClosed(t)
    \/ \E t \in TaskIds, msg \in AwaitInbound : ReceiveTake(t, msg)
    \/ \E t \in TaskIds : HandlerResume(t)
    \/ \E t \in TaskIds : Cancelled(t)
    \/ Close
    \/ CloseResume
    \/ Drop
    \/ Advance
    \/ \E u \in AwaitUses :
           /\ Registration(u[1], Closure("on", None, u[2])) \notin handlers
           /\ On(u[1], u[2])

SpecAwait == InitAwait /\ [][NextAwait]_vars

\* Two callers of initialize_cache, fetches that succeed (with or without
\* markets) or fail, and cache.clear() at any moment.
InitFetch == InitWith(Budget(0, 0, 0, 0, 0, 0, 0))

FetchedMarkets == { <<>>, <<"BTC/USDC">> }

FetchedTokens == { <<"BTC", "USDC">> }

NextFetch ==
    \/ \E p \in InitCallers : InitializeCache(p)
    \/ \E id \in InitTasks : InitStart(id)
    \/ \E id \in InitTasks, markets \in FetchedMarkets, tokens \in FetchedTokens :
           InitFetched(id, markets, tokens)
    \/ \E id \in InitTasks : InitFailed(id)
    \/ \E p \in InitCallers : InitReturns(p)
    \/ Clear

SpecFetch == InitFetch /\ [][NextFetch]_vars

\* Subscriptions with and without a market or a user, made while the client
\* is not connected; the session is lost once and the client reconnects.
InitSentinel == InitWith(Budget(SentinelCalls, MaxConn, 0, 1, 0, 1, 0))

NextSentinel ==
    \/ MainStart
    \/ \E t \in TaskIds : ConnectOk(t)
    \/ \E t \in TaskIds : ReplayResume(t)
    \/ \E t \in TaskIds : FlushResume(t)
    \/ \E t \in TaskIds : FlushSpin(t)
    \/ \E t \in TaskIds : ReconnectWake(t)
    \/ \E t \in TaskIds : ReceiveStart(t)
    \/ \E t \in TaskIds : ReceiveClosed(t)
    \/ \E t \in TaskIds : PingStart(t)
    \/ Drop
    \/ (\E t \in TaskIds : tasks[t].pc = "sleep_reconnect") /\ Advance
    \/ \E a \in SentinelArgsSet : ~is_connected /\ Call("subscribe", a)

SpecSentinel == InitSentinel /\ [][NextSentinel]_vars

\* Subscriptions, registrations and facades on a client whose session is lost
\* and whose connect attempt fails.  The ping loops, which read neither the
\* registry nor the handlers, take no step in this scenario.
InitTransparent ==
    InitWith(Budget(TransparentCalls, MaxConn, 1, 1, 0, TransparentTicks, 0))

NextTransparent ==
    \/ MainStart
    \/ \E t \in TaskIds : ConnectOk(t)
    \/ \E t \in TaskIds : ConnectFail(t)
    \/ \E t \in TaskIds : ReplayResume(t)
    \/ \E t \in TaskIds : FlushResume(t)
    \/ \E t \in TaskIds : FlushSpin(t)
    \/ \E t \in TaskIds : ReconnectWake(t)
    \/ \E t \in TaskIds : ReceiveStart(t)
    \/ \E t \in TaskIds : ReceiveClosed(t)
    \/ Drop
    \/ Advance
    \/ \E op \in {"subscribe", "unsubscribe"} : Call(op, TradesArgs)
    \/ \E i \in 1..Len(calls) : CallResume(i)
    \/ On("trade", "f")
    \/ Off("trade", "f")
    \/ OnCapability("trade", "f")
    \/ OnTrades("A")
    \/ OnTradesUnsubscribe("A")
    \/ SpawnedStart

SpecTransparent == InitTransparent /\ [][NextTransparent]_vars

\* Handlers that register and deregister handlers while they run, beside a
\* plain one, registered at any moment before the first frame of one session;
\* from then on the handlers alone change the registrations.  The ping loop, which has no part in the dispatch, takes no step
\* in this scenario.
InitReentrant == InitWith(Budget(0, 1, 0, 0, 0, 0, 0))

ReentrantInbound == { Message("trade", "BTC/USDC", None) }

NextReentrant ==
    \/ MainStart
    \/ \E t \in TaskIds : ConnectOk(t)
    \/ \E t \in TaskIds : ReceiveStart(t)
    \/ \E t \in TaskIds, msg \in ReentrantInbound : ReceiveTake(t, msg)
    \/ \E h \in ReentrantCallbacks \cup {"f"} :
           /\ dispatching.n = 0
           /\ Registration("trade", Closure("on", None, h)) \notin handlers
           /\ On("trade", h)

SpecReentrant == InitReentrant /\ [][NextReentrant]_vars

---------------------------------------------------------------------------
(* Claims *)

KeyOf(a) == get_subscription_key(a)

Outstanding(k) == issued[k].sub - issued[k].unsub

\* C1: for calls on a key that do not overlap, subscribe hands a frame to _send
\* exactly when the key's count is 0 (it then becomes 1) and unsubscribe exactly
\* when the count is 1 (it then becomes 0); between calls the subscribe frames
\* issued exceed the unsubscribe frames issued by one when the count is positive
\* and by none when the key is absent.
C1_FramesFollowRefCount ==
    /\ [](calls = <<>> =>
            \A k \in Keys : Outstanding(k) = IF Count(k) > 0 THEN 1 ELSE 0)
    /\ [][\A k \in Keys :
            /\ issued'[k].sub # issued[k].sub =>
                   issued'[k].sub = issued[k].sub + 1 /\ Count(k) = 0
            /\ issued'[k].unsub # issued[k].unsub =>
                   issued'[k].unsub = issued[k].unsub + 1 /\ Count(k) = 1
            /\ (calls = <<>> /\ calls' = <<>>) =>
                   /\ (Count(k) = 0 /\ DictGet(active_subscriptions', k) = 1)
                          => issued'[k].sub = issued[k].sub + 1
                   /\ (Count(k) = 1 /\ DictGet(active_subscriptions', k) = 0)
                          => issued'[k].unsub = issued[k].unsub + 1]_vars

\* C1 witness: a key subscribed twice, unsubscribed twice: one frame each way.
C1_Witness ==
    \E k \in Keys :
        /\ calls = <<>>
        /\ lastCall = Completed("unsubscribe", k, 1, TRUE, FALSE)
        /\ budget.calls = 0
        /\ issued[k] = [sub |-> 1, unsub |-> 1]
        /\ Count(k) = 0

\* C9: an unsubscribe call on a key whose count is 0 changes neither the
\* registry nor the outbound queue nor the wire, issues no frame, does not
\* suspend and does not raise.
C9_UnsubscribeAtZeroIsNoop ==
    [][\A a \in ArgsSet :
          (Count(KeyOf(a)) = 0 /\ Call("unsubscribe", a)) =>
              /\ active_subscriptions' = active_subscriptions
              /\ message_queue' = message_queue
              /\ wire' = wire
              /\ issued' = issued
              /\ calls' = calls
              /\ lastCall' = Completed("unsubscribe", KeyOf(a), 0, FALSE, FALSE)]_vars

\* C9 witness: the no-op call made after the key was fully unsubscribed.
C9_Witness ==
    \E k \in Keys :
        /\ lastCall = Completed("unsubscribe", k, 0, FALSE, FALSE)
        /\ issued[k] = [sub |-> 1, unsub |-> 1]

TradesKey == KeyOf(TradesArgs)

Quiet == calls = <<>> /\ spawned = <<>>

\* C2: two consumers call on_trades for one market: one subscribe frame is
\* issued for it; an unsubscribe frame is issued only once both have invoked
\* their capability, and then exactly one.
C2_TwoConsumersOneFrame ==
    /\ issued[TradesKey].sub <= 1
    /\ issued[TradesKey].unsub <= 1
    /\ issued[TradesKey].unsub = 1 => \A co \in Consumers : consumers[co] = "released"
    /\ (Quiet /\ \A co \in Consumers : consumers[co] = "active")
           => issued[TradesKey] = [sub |-> 1, unsub |-> 0]
    /\ (Quiet /\ \A co \in Consumers : consumers[co] = "released")
           => issued[TradesKey] = [sub |-> 1, unsub |-> 1]

\* C3: calls on one key that overlap in their sends leave what calls made one
\* after the other leave: frames alternate (a subscribe frame only for a key
\* that has none outstanding, an unsubscribe frame only for one that has), no
\* call raises, and once all calls have returned a subscribe frame is
\* outstanding exactly if the key is in the registry.
C3_OverlapIsSerial ==
    /\ Outstanding(TradesKey) \in {0, 1}
    /\ ~lastCall.raised
    /\ calls = <<>> => Outstanding(TradesKey) = IF Count(TradesKey) > 0 THEN 1 ELSE 0

\* The subscribe frames for key k among the frames fs.
SubscribeFrames(fs, k) ==
    Cardinality({ i \in 1..Len(fs) : fs[i].type = "subscribe" /\ FrameKey(fs[i]) = k })

\* C4: when the connect sequence of a reconnect completes (replay and flush
\* done, loops started), the new session has received exactly one subscribe
\* frame for every key in the registry and none for any other key, whatever
\* calls were made while the client was not connected.
C4_ReconnectReplaysOncePerKey ==
    [][(ping_task' # ping_task /\ sess' >= 2) =>
          \A k \in Keys :
              SubscribeFrames(wire', k) = IF Count(k) > 0 THEN 1 ELSE 0]_vars

\* C5: on the wire of a session, a frame that was queued while no session was
\* live comes after nothing but replayed frames and frames queued before it.
C5_QueuedFramesFirstInOrder ==
    \A i, j \in 1..Len(wire) :
        (i < j /\ wire[j].qid > 0) =>
            \/ wire[i].src = "replay"
            \/ wire[i].qid > 0 /\ wire[i].qid < wire[j].qid

\* A task that will connect, or a receive loop that will see its session go.
Recovering ==
    \E t \in TaskIds :
        /\ t[1] # "ping"
        /\ tasks[t].pc \in {"ready", "connecting", "replay_send", "flush_send",
                            "sleep_reconnect", "recv"}

\* C8: shutdown not being requested, the client is never left unable to
\* reconnect: the event loop is never held by a task that does not yield, and
\* there is always a task that is connecting, finishing a connect, waiting to
\* retry, or reading the session (and so will see it drop and retry).
C8_NeverStranded == should_reconnect => (~Spinning /\ Recovering)

\* A task calls websockets.connect in this step.
ConnectAttempted ==
    \E t \in TaskIds : tasks'[t].pc = "connecting" /\ tasks[t].pc # "connecting"

\* C6: once close() has been called, no connect attempt is started and no
\* session is established.
C6_NoConnectionAfterClose ==
    [][closer # "idle" => (~ConnectAttempted /\ sess' = sess)]_vars

\* The receive loop of task t finds its session closed in this step.
ReceiveEnds(t) ==
    /\ t[1] = "recv"
    /\ tasks[t].pc \in {"ready", "recv"}
    /\ tasks'[t].pc # tasks[t].pc
    /\ ws = "closed"

\* C7: at a liveness check on a live session, if more than pong_timeout (60s)
\* has passed since the last pong the session is closed and no ping is sent,
\* otherwise a ping frame is sent and the session stays open; a closed session
\* always has a task that will reconnect, and (shutdown not requested) the
\* receive loop that finds the session closed schedules the reconnect with the
\* first delay of the table.
C7_PongTimeoutClosesElsePing ==
    /\ [][\A t \in TaskIds : (Live(State) /\ PingWake(t)) =>
              IF sincePong > 60
              THEN ws' = "closed" /\ wire' = wire /\ tasks'[t].pc = "done"
              ELSE ws' = "open" /\ wire' = Append(wire, PingFrame)]_vars
    /\ [](ws = "closed" /\ should_reconnect => Recovering)
    /\ [][\A t \in TaskIds : (ReceiveEnds(t) /\ should_reconnect) =>
              /\ tasks'[t].pc = "sleep_reconnect"
              /\ tasks'[t].timer = 1]_vars

\* The session was closed by the liveness check after pings went unanswered,
\* and the reconnect is scheduled.
C7_Witness ==
    /\ ws = "closed"
    /\ sincePong > PongTimeout
    /\ \E i \in 1..Len(wire) : wire[i].type = "ping"
    /\ \E t \in TaskIds : tasks[t].pc = "sleep_reconnect"

\* The delays of the default table, by number of consecutive retries so far.
DefaultDelay(k) ==
    IF k = 0 THEN 1 ELSE IF k = 1 THEN 2 ELSE IF k = 2 THEN 4
    ELSE IF k = 3 THEN 8 ELSE 16

\* C10: a retry scheduled after k consecutive retries since the last
\* successful connect waits 1, 2, 4, 8, 16 seconds for k = 0..4 and 16 seconds
\* for every larger k; the counter goes up by one when the wait ends, and a
\* successful connect sets it back to 0.
C10_BackoffDelayClamped ==
    /\ [][\A t \in TaskIds :
            (tasks'[t].pc = "sleep_reconnect" /\ tasks[t].pc # "sleep_reconnect") =>
                /\ tasks'[t].timer = DefaultDelay(reconnect_attempt)
                /\ reconnect_attempt' = reconnect_attempt]_vars
    /\ [][\A t \in TaskIds :
            (tasks[t].pc = "sleep_reconnect" /\ tasks'[t].pc # "sleep_reconnect") =>
                reconnect_attempt' = reconnect_attempt + 1]_vars
    /\ [][sess' # sess => reconnect_attempt' = 0]_vars

\* A retry is waiting the last delay of the table, the counter being past
\* the end of the table.
C10_Witness ==
    /\ reconnect_attempt >= 5
    /\ \E t \in TaskIds : tasks[t].pc = "sleep_reconnect" /\ tasks[t].timer = 16

\* The callables registered under a tag.
Registered(tag) == { r.owner : r \in { x \in handlers : x.tag = tag } }

\* How many times the last dispatch called cl.
\* The frame that lastDispatch records after the step.
Taken == lastDispatch'.message

\* The step is the receive loop t taking a frame and dispatching it: the
\* frame is then the one recorded in lastDispatch, and the registry is as it was.
Dispatches(t) ==
    /\ handlers' = handlers /\ dupes' = dupes /\ budget' = budget
    /\ ReceiveFrame(t, Taken)

\* The step changes what is registered, or records a repeated registration.
RegistryStep == handlers' # handlers \/ dupes' # dupes

Times(d, cl) == Cardinality({ i \in DOMAIN d.invoked : d.invoked[i] = cl })

\* C12: when a frame is dispatched, every callback registered for its tag is
\* called once, those that raise and those listed after one that raised
\* alike; one error is logged per raising callback; the receive loop is then
\* waiting for the next frame on the same open session.
C12_HandlerFailureIsolated ==
    [][\A t \in TaskIds : Dispatches(t) =>
          /\ \A cl \in Registered(Taken.type) : Times(lastDispatch', cl) = 1
          /\ lastDispatch'.errors =
                 Cardinality({ cl \in Registered(Taken.type) : Raises(cl.handler) })
          /\ tasks'[t].pc = "recv"
          /\ ws' = "open" /\ is_connected' = is_connected]_vars

\* A frame was dispatched to three callbacks of which the first called raised.
C12_Witness ==
    /\ Len(lastDispatch.invoked) = 3
    /\ Raises(lastDispatch.invoked[1].handler)
    /\ ~Raises(lastDispatch.invoked[3].handler)
    /\ lastDispatch.errors = 2
    /\ \E t \in TaskIds : tasks[t].pc = "recv"

\* C13: a pong frame sets the time since the last pong to zero and calls no
\* handler, whatever is registered under the tag "pong"; nothing is logged
\* and the registry is unchanged.
C13_PongConsumedInternally ==
    [][\A t \in TaskIds : ReceivePong(t) =>
          /\ sincePong' = 0
          /\ lastDispatch'.message = PongMessage
          /\ lastDispatch'.invoked = <<>>
          /\ lastDispatch'.errors = 0
          /\ handlers' = handlers]_vars

\* A pong frame was consumed while callbacks were registered under "pong".
C13_Witness ==
    /\ lastDispatch.message = PongMessage
    /\ Registered("pong") # {}
    /\ sincePong = 0
    /\ budget.tick = 0

\* C15: a callback is called for a frame exactly once if it is registered
\* under the frame's tag, however many times on() was given it, and not at
\* all otherwise; after off or its capability it is not registered.
C15_RegistrationIsASet ==
    /\ [][\A t \in TaskIds : Dispatches(t) =>
            \A h \in Callbacks :
                Times(lastDispatch', Closure("on", None, h)) =
                    IF Registration(Taken.type, Closure("on", None, h)) \in handlers
                    THEN 1 ELSE 0]_vars
    /\ [][RegistryStep => \A ty \in RawTags, h \in Callbacks :
            /\ (Off(ty, h) \/ OnCapability(ty, h)) =>
                   Registration(ty, Closure("on", None, h)) \notin handlers'
            /\ On(ty, h) =>
                   handlers' = handlers \cup {Registration(ty, Closure("on", None, h))}]_vars

\* A frame was dispatched to a callback that on() had been given twice.
C15_Witness ==
    /\ lastDispatch.twice
    /\ Len(lastDispatch.invoked) = 1

\* The closures that take the frame as theirs before they look at the cache.
TakenBy(msg) ==
    { cl \in Registered(msg.type) :
          \/ cl.facade \in {"on_trades", "on_orderbook"} /\ cl.id = msg.market_id
          \/ cl.facade = "on_user_trades" }

\* C11: a frame dispatched while cache.is_ready() is false reaches no handler
\* given to on_trades, on_orderbook or on_user_trades; each of their closures
\* that takes the frame logs one warning and nothing else is logged; the
\* receive loop is then waiting for the next frame.
C11_NotReadyEventDropped ==
    [][\A t \in TaskIds :
          (~is_ready(cache) /\ Dispatches(t)) =>
              /\ \A cl \in Registered(Taken.type) :
                     cl.facade \in {"on_trades", "on_orderbook", "on_user_trades"} =>
                         Times(lastDispatch', cl) = 0
              /\ lastDispatch'.warnings = Cardinality(TakenBy(Taken))
              /\ lastDispatch'.errors = 0
              /\ tasks'[t].pc = "recv"]_vars

\* A trade was dropped with a warning while the cache held tokens and
\* markets but was not marked initialized.
C11_Witness ==
    /\ lastDispatch.message.type = "trade"
    /\ lastDispatch.warnings >= 1
    /\ lastDispatch.invoked = <<>>
    /\ cache.tokens # {} /\ cache.markets # {} /\ ~cache.initialized
    /\ \E t \in TaskIds : tasks[t].pc = "recv"

\* The frame is an event of the market or the user the closure was made for.
BelongsTo(msg, cl) ==
    IF cl.facade \in {"on_trades", "on_orderbook"}
    THEN msg.market_id = cl.id
    ELSE msg.user = cl.id

C16_ReadyIffMarkedAndFilled ==
    /\ [](is_ready(cache) <=> (marked /\ cache.tokens # {} /\ cache.markets # {}))
    /\ [][Clear => (~is_ready(cache') /\ cache'.tokens = {} /\ cache'.markets = {})]_vars

\* The cache is ready, after a set_markets call that removed a market.
C16_Witness ==
    /\ is_ready(cache)
    /\ marked
    /\ dropped \cap MarketIds # {}

\* C17: set_tokens leaves exactly the tokens of its list in the token cache,
\* and the market cache and the initialized flag as they were; set_markets
\* likewise for the market cache.
C17_SetReplacesWholesale ==
    [][/\ \A tokens \in ListsOver(Tickers) : SetTokens(tokens) =>
              /\ cache'.tokens = { tokens[i] : i \in DOMAIN tokens }
              /\ cache'.markets = cache.markets
              /\ cache'.initialized = cache.initialized
       /\ \A markets \in ListsOver(MarketIds) : SetMarkets(markets) =>
              /\ cache'.markets = { markets[i] : i \in DOMAIN markets }
              /\ cache'.tokens = cache.tokens
              /\ cache'.initialized = cache.initialized]_vars

\* A set_tokens call removed a token from an initialized cache that holds a
\* market and still holds another token.
C17_Witness ==
    /\ dropped \cap Tickers # {}
    /\ cache.tokens # {}
    /\ cache.markets # {}
    /\ cache.initialized

\* amount * 10**decimals, for an amount with at most that many fractional digits
InAtoms(value, decimals) ==
    FromDigits(value.int \o value.frac \o Zeros(decimals - Len(value.frac)))

\* The float, rounded to that many decimals, is the amount:
\* | mant / 2**scale * 10**decimals - amount * 10**decimals | < 1/2
SameToDecimals(float, value, decimals) ==
    Less(MulSmall(Distance(TimesTenTo(float.mant, decimals),
                           TimesTwoTo(InAtoms(value, decimals), float.scale)), 2),
         TwoTo(float.scale))

\* C18: for an amount with at most N fractional digits, to_atoms gives
\* amount * 10^N as a string of digits and to_display_value of it with the
\* same N gives the amount back (here: to N decimals).
C18_RoundTrip ==
    conv.stage = "display" =>
        /\ FromDigits(conv.atoms) = InAtoms(conv.value, conv.decimals)
        /\ SameToDecimals(conv.display, conv.value, conv.decimals)

\* C19: when the send of a queued frame fails during the flush of _connect,
\* the failed frame is in the queue again in front of the frames that were
\* behind it, these in their order, and none of them has been handed to the
\* socket; the failed frame itself being sent again at once is not counted
\* against the claim.
C19_FailedFrameKeepsPlace ==
    [][\A t \in TaskIds :
          (FlushResume(t) /\ ~tasks[t].ok) =>
              \/ wire' = wire /\ message_queue' = <<tasks[t].msg>> \o message_queue
              \/ wire' = Append(wire, tasks[t].msg) /\ message_queue' = message_queue]_vars

\* C20: a ping loop or a receive loop that takes a step is the one started
\* for the current session (self._ping_task, self._receive_task), and after
\* every step at most one ping loop and at most one receive loop are active.
C20_LoopsEndWithTheirSession ==
    [][/\ \A t \in TaskIds :
              /\ (PingWake(t) \/ PingResume(t)) => t = PingTask(ping_task)
              /\ (ReceivePong(t) \/ ReceiveClosed(t)) => t = RecvTask(receive_task)
       /\ Cardinality({ t \in TaskIds : t[1] = "ping" /\
                            tasks'[t].pc \in {"ping_sleep", "ping_send"} }) <= 1
       /\ Cardinality({ t \in TaskIds : t[1] = "recv" /\ tasks'[t].pc = "recv" }) <= 1]_vars

\* A subscribe frame for key k made by the replay of the connect that task t
\* runs has been handed to _send: it is on the wire, in the queue, or the
\* frame whose send the task awaits.
ReplayIssued(t, k) ==
    \E f \in {wire'[i] : i \in 1..Len(wire')} \cup
              {message_queue'[i] : i \in 1..Len(message_queue')} \cup {tasks'[t].msg} :
        f.src = "replay" /\ f.type = "subscribe" /\ FrameKey(f) = k

\* C21: on every successful connect, the step in which the connect passes
\* from the replay to the flush (or to starting the loops) finds a replayed
\* subscribe frame issued for every key of the registry; and the step that
\* starts the ping and receive loops is the last step of a task running
\* _connect, taken with the outbound queue empty.
C21_ReplayThenFlushThenLoops ==
    [][/\ \A t \in TaskIds :
              (/\ tasks[t].pc \in {"connecting", "replay_send"}
               /\ \/ tasks'[t].pc \in {"flush_send", "flush_spin"}
                  \/ tasks'[t].pc = "done" /\ ping_task' # ping_task)
                  => \A k \in Keys : Count(k) > 0 => ReplayIssued(t, k)
       /\ ping_task' # ping_task =>
              /\ message_queue' = <<>>
              /\ \E t \in TaskIds :
                     /\ tasks[t].pc \in {"connecting", "replay_send", "flush_send"}
                     /\ tasks'[t].pc = "done"
              /\ tasks'[PingTask(ping_task')].pc = "ready"
              /\ tasks'[RecvTask(receive_task')].pc = "ready"
              /\ tasks[PingTask(ping_task')].pc = "none"]_vars

\* A reconnect replayed a key, flushed a queued frame after it and has just
\* started its loops.
C21_Witness ==
    /\ ping_task = 2
    /\ tasks[PingTask(2)].pc = "ready"
    /\ message_queue = <<>>
    /\ \E i, j \in 1..Len(wire) :
           i < j /\ wire[i].src = "replay" /\ wire[j].qid > 0

\* Task t is a ping loop or a receive loop that has started and not ended.
LoopRunning(t) == t[1] \in {"ping", "recv"} /\ ~Finished(State, t)

\* C22: close() closes the session only once the ping loop and the receive
\* loop have stopped, and once close() has returned no ping loop and no
\* receive loop of the client is running.
C22_CloseStopsLoops ==
    /\ closer \in {"closing_ws", "done"} =>
           /\ ping_task > 0 => Finished(State, PingTask(ping_task))
           /\ receive_task > 0 => Finished(State, RecvTask(receive_task))
    /\ closer = "done" => \A t \in TaskIds : ~LoopRunning(t)

\* C23: every entry of the subscription registry has a count of at least 1
\* and no key has two entries, so that a key is in the registry exactly if
\* its count is at least 1; and when an unsubscribe that found the count at 1
\* has returned, the key is no longer in the registry.
C23_RegistryCountsPositive ==
    /\ \A i \in 1..Len(active_subscriptions) : active_subscriptions[i].count >= 1
    /\ \A i, j \in 1..Len(active_subscriptions) :
           active_subscriptions[i].key = active_subscriptions[j].key => i = j
    /\ \A k \in Keys : HasKey(active_subscriptions, k) <=> Count(k) >= 1
    /\ (lastCall.op = "unsubscribe" /\ lastCall.cur = 1) =>
           ~HasKey(active_subscriptions, lastCall.key)

\* An unsubscribe that found the count at 1 has returned and the key is gone,
\* subscribe and unsubscribe frames having been issued for it.
C23_Witness ==
    /\ lastCall.op = "unsubscribe"
    /\ lastCall.cur = 1
    /\ lastCall.sent
    /\ ~HasKey(active_subscriptions, lastCall.key)
    /\ issued[lastCall.key].sub >= 1
    /\ issued[lastCall.key].unsub >= 1

\* C24: a step that establishes a session leaves the reconnect attempt
\* counter at 0 and the last-pong time at the current time; any other step
\* leaves the counter as it is or larger.
C24_ConnectResetsAttempt ==
    [][/\ sess' # sess => (reconnect_attempt' = 0 /\ sincePong' = 0)
       /\ sess' = sess => reconnect_attempt' >= reconnect_attempt]_vars

\* A session has just been established after attempts that failed.
C24_Witness ==
    /\ sess = 1
    /\ budget.fail < BackoffFails
    /\ reconnect_attempt = 0
    /\ sincePong = 0
    /\ receive_task = 1 /\ tasks[RecvTask(1)].pc = "ready"

\* C25: no ping frame is in the outbound queue, which holds the frames that
\* were handed to _send while no session was live and that the next connect
\* flushes.
C25_NoPingQueued ==
    \A i \in 1..Len(message_queue) : message_queue[i].type # "ping"

\* C26: a frame handed to _send while no session is live (by subscribe, by
\* unsubscribe or by the ping loop) leaves the wire as it is and the queue
\* longer by exactly that frame, at its tail; the sender goes on without
\* being suspended; the handler registrations are unchanged and the registry
\* changes by nothing but the caller's own write of the count.
C26_SendWithoutSessionQueues ==
    [][~Live(State) =>
          /\ \A op \in {"subscribe", "unsubscribe"}, a \in ArgsSet :
                 (issued' # issued /\ Call(op, a)) =>
                     /\ wire' = wire
                     /\ message_queue' =
                            Append(message_queue,
                                   [CallFrame(op, a) EXCEPT !.qid = nq + 1])
                     /\ calls' = calls
                     /\ lastCall'.op = op /\ lastCall'.sent /\ ~lastCall'.raised
                     /\ handlers' = handlers
                     /\ active_subscriptions' =
                            IF op = "subscribe"
                            THEN DictSet(active_subscriptions, KeyOf(a), 1)
                            ELSE DictDel(active_subscriptions, KeyOf(a))
          /\ \A t \in TaskIds :
                 (nq' # nq /\ PingWake(t)) =>
                     /\ wire' = wire
                     /\ message_queue' =
                            Append(message_queue, [PingFrame EXCEPT !.qid = nq + 1])
                     /\ tasks'[t].pc # "ping_send"
                     /\ handlers' = handlers
                     /\ active_subscriptions' = active_subscriptions]_vars

\* Two frames were queued by calls made without a live session, one of them
\* after close().
C26_Witness ==
    /\ Len(message_queue) = 2
    /\ ~Live(State)
    /\ closer = "done"
    /\ lastCall.sent
    /\ message_queue[2].src = "call" /\ message_queue[2].qid = 2
    /\ wire = <<>>

\* C27: a session is established only in a step that starts with no session
\* open, and a task that enters _connect while a session is open returns
\* without a connect attempt and leaves the session as it is.
C27_OneSessionAtATime ==
    [][/\ sess' # sess => (ws # "open" /\ sess' = sess + 1)
       /\ \A t \in TaskIds :
              (ws = "open" /\ ReconnectWake(t)) =>
                  /\ tasks'[t].pc = "done"
                  /\ ws' = "open"
                  /\ sess' = sess
                  /\ wire' = wire]_vars

\* A task entered _connect while the session was open and has returned; the
\* session, the first one, is still the one that was open.
C27_Witness ==
    /\ ws = "open"
    /\ sess = 1
    /\ reconnect_attempt = 1
    /\ tasks[MainTask].pc = "done"
    /\ ping_task = 0

\* The handler called at position i of the log has finished before position j.
EndedBefore(i, j) ==
    \E k \in (i + 1)..(j - 1) :
        /\ dispatching.log[k].frame = dispatching.log[i].frame
        /\ dispatching.log[k].handler = dispatching.log[i].handler
        /\ dispatching.log[k].ev \in {"return", "cancelled"}

\* C28: handlers are called in the order in which the frames arrived,
\* whatever their tags, and a handler is called for a frame only when every
\* handler called for an earlier frame has finished, a coroutine it returned
\* included.
C28_DispatchInArrivalOrder ==
    \A i, j \in 1..Len(dispatching.log) :
        (/\ i < j
         /\ dispatching.log[i].ev = "call"
         /\ dispatching.log[j].ev = "call"
         /\ dispatching.log[i].frame # dispatching.log[j].frame)
            => (dispatching.log[i].frame < dispatching.log[j].frame /\ EndedBefore(i, j))

\* A coroutine handler was awaited for the first frame and a handler has
\* been called for the second frame, which has another tag.
C28_Witness ==
    \E i, j \in 1..Len(dispatching.log) :
        /\ i < j
        /\ dispatching.log[i] = Event(1, "trade", "slow", "call")
        /\ dispatching.log[j] = Event(2, "order", "slow", "call")

\* The tasks of initialize_cache that are made and not done in stages st.
InFlight(st) == { i \in InitTasks : st[i] \in {"created", "fetching"} }

\* A task is made for initialize_cache in this step.
FetchTaskMade == \E i \in InitTasks : init.stage[i] = "none" /\ init'.stage[i] = "created"

FramesFor(k) ==
    { i \in 1..Len(wire) :
          wire[i].type \in {"subscribe", "unsubscribe"} /\ FrameKey(wire[i]) = k }

\* The last frame for key k sent on the current session is a subscribe frame.
LastIsSubscribe(k) ==
    \E i \in FramesFor(k) :
        wire[i].type = "subscribe" /\ \A j \in FramesFor(k) : j <= i

\* The session is live and the connect that made it has finished its replay
\* and its flush.
Connected ==
    /\ Live(State)
    /\ \A t \in TaskIds :
           tasks[t].pc \notin {"connecting", "replay_send", "flush_send", "flush_spin"}

\* C30: the client being connected, no subscribe or unsubscribe call being
\* in progress and the outbound queue being empty, a key is in the registry
\* exactly if the last frame sent for it on the current session is a
\* subscribe frame.
C30_WireMatchesRegistry ==
    (Connected /\ Quiet /\ message_queue = <<>>) =>
        \A k \in Keys : HasKey(active_subscriptions, k) <=> LastIsSubscribe(k)

\* C31: whatever calls change the registry while the replay of a connect is
\* suspended in a send, the client is never left with an open session that
\* is not marked connected while no task runs the connect sequence, none
\* reads the session and none waits to reconnect.
C31_ReplayNotAborted ==
    ~(/\ ws = "open"
      /\ ~is_connected
      /\ should_reconnect
      /\ \A t \in TaskIds :
             tasks[t].pc \notin {"ready", "connecting", "replay_send", "flush_send",
                                 "flush_spin", "sleep_reconnect", "recv",
                                 "handler_await"})

\* C32: the flush loop of _connect ends whatever the sends do: no task is
\* ever in the turn of the loop that pops a frame with no live session, where
\* _send appends the frame again without suspending, so that the queue is
\* never found empty and no other task can run to change that.
C32_FlushTerminates ==
    \A t \in TaskIds :
        ~(tasks[t].pc = "flush_spin" /\ message_queue # <<>> /\ ~Live(State))

\* C33: no unsubscribe call raises, and of two unsubscribe calls that overlap
\* on a key only one issues a frame: no two of them are suspended in the
\* send of an unsubscribe frame for the same key.
C33_UnsubscribeNeverRaises ==
    /\ ~(lastCall.op = "unsubscribe" /\ lastCall.raised)
    /\ \A i, j \in 1..Len(calls) :
           (/\ calls[i].op = "unsubscribe"
            /\ calls[j].op = "unsubscribe"
            /\ calls[i].args = calls[j].args) => i = j

\* C34: once every consumer has invoked the capability its facade call
\* returned and the tasks the facades spawned have all completed, the
\* registry is empty and as many unsubscribe frames as subscribe frames have
\* been issued for every key.
C34_FacadesBalance ==
    (Quiet /\ \A co \in Consumers : consumers[co] = "released") =>
        /\ active_subscriptions = <<>>
        /\ \A k \in Keys : issued[k].unsub = issued[k].sub

\* C35: a frame does not stay in the outbound queue of a client whose
\* session is live: the connect sequence being over (the only place that
\* flushes the queue) and the session live, the queue is empty.
C35_NoFrameWaitsOnLiveSession ==
    Connected => message_queue = <<>>

\* The fields of a frame that are sent.
Sent(f) ==
    [type |-> f.type, channel |-> f.channel, market_id |-> f.market_id,
     user_address |-> f.user_address]

\* C36: on the session made by a reconnect, a subscribe frame that the
\* replay built for a key has the channel, the market_id and the
\* user_address of the subscribe frame that subscribe built for that key.
C36_ReplayFrameEqualsOriginal ==
    sess >= 2 =>
        \A i, j \in 1..Len(wire) :
            (/\ wire[i].src = "replay"
             /\ wire[j].src = "call"
             /\ wire[j].type = "subscribe"
             /\ FrameKey(wire[i]) = FrameKey(wire[j])) => Sent(wire[i]) = Sent(wire[j])

\* A step of the transport or of the connect sequence after a lost session or
\* a failed attempt.
TransportStep ==
    \/ Drop
    \/ \E t \in TaskIds : ConnectFail(t)
    \/ \E t \in TaskIds : ReceiveClosed(t)
    \/ \E t \in TaskIds : ReconnectWake(t)

\* A step of subscribe, unsubscribe, on, off or a facade capability.
RegistrationStep ==
    \/ \E op \in {"subscribe", "unsubscribe"} : Call(op, TradesArgs)
    \/ \E i \in 1..Len(calls) : CallResume(i)
    \/ On("trade", "f")
    \/ Off("trade", "f")
    \/ OnCapability("trade", "f")
    \/ OnTrades("A")
    \/ OnTradesUnsubscribe("A")
    \/ SpawnedStart

\* C37: a lost session and a failed connect attempt leave the subscription
\* registry (keys and counts) and the registered handlers as they were; a
\* step that changes either is a step of subscribe, unsubscribe, on, off or a
\* facade capability.
C37_DropsKeepRegistrations ==
    [][/\ TransportStep => UNCHANGED <<active_subscriptions, handlers>>
       /\ (<<active_subscriptions, handlers>>' # <<active_subscriptions, handlers>>)
              => RegistrationStep]_vars

\* A session on which a subscription was made was lost and the connect
\* attempt after it failed; the subscription is in the registry and a handler
\* is registered.
C37_Witness ==
    /\ budget.drop = 0
    /\ budget.fail = 0
    /\ sess >= 1
    /\ ws = "closed"
    /\ active_subscriptions # <<>>
    /\ budget.calls = TransparentCalls - 1
    /\ \E i \in 1..Len(wire) : wire[i].src = "call" /\ wire[i].type = "subscribe"
    /\ Registration("trade", Closure("on", None, "f")) \in handlers
    /\ \E t \in TaskIds : tasks[t].pc = "sleep_reconnect" /\ reconnect_attempt >= 1

\* The handlers registered for a tag.
RegisteredFor(tag) == { r.owner.handler : r \in { x \in handlers : x.tag = tag } }

\* The positions in a log of the calls made for a frame.
CallsOf(log, n) == { i \in 1..Len(log) : log[i].frame = n /\ log[i].ev = "call" }

\* C38: the handlers called for a frame are those registered for its tag when
\* its dispatch begins, each once, whatever the handlers register or
\* deregister while they run, and none of the calls ends in an error; the
\* dispatch of the next frame goes by the registrations as changed.
C38_DispatchUsesSnapshot ==
    [][dispatching'.n = dispatching.n + 1 =>
               LET n == dispatching'.n
                   log == dispatching'.log
               IN  /\ { log[i].handler : i \in CallsOf(log, n) } = RegisteredFor("trade")
                   /\ Cardinality(CallsOf(log, n)) = Cardinality(RegisteredFor("trade"))
                   /\ \A i \in CallsOf(log, n) :
                          \E j \in (i + 1)..Len(log) :
                              /\ log[j].frame = n
                              /\ log[j].handler = log[i].handler
                              /\ log[j].ev = "return"]_vars

\* In the first frame "remover" ran before "f" and "adder" ran; in the second
\* frame "late" was called and "f" was not.
C38_Witness ==
    LET log == dispatching.log IN
    /\ dispatching.n = 2
    /\ \E i, j \in CallsOf(log, 1) :
           i < j /\ log[i].handler = "remover" /\ log[j].handler = "f"
    /\ \E i \in CallsOf(log, 1) : log[i].handler = "adder"
    /\ \E i \in CallsOf(log, 2) : log[i].handler = "late"
    /\ \A i \in CallsOf(log, 2) : log[i].handler # "f"

=============================================================================
